---- MODULE Spec2Model ----
(***************************************************************************)
(* License server: the in-memory session registry (DashMap<String,         *)
(* Vec<Session>>), the heartbeat handler of src/src/handlers.rs, the       *)
(* license service (validate / extend / set_blocked / bind_hwid / create)  *)
(* and the administrative commands that call it.                           *)
(*                                                                         *)
(* Time is in seconds.  Every `.await` of a handler is a point where other *)
(* tasks may run, so each handler is cut into one action per stretch of    *)
(* code between two awaits that touches shared state.                      *)
(*                                                                         *)
(* The heartbeat of src/src/plugins/server/handlers.rs is the same handler *)
(* without the HWID step (lines 106-117 of src/src/handlers.rs) and        *)
(* without telemetry; its session admission is line for line the same.     *)
(* LicenseService (src/src/services/license.rs) and sv::License            *)
(* (src/src/sv/license.rs) agree on validate, extend and set_blocked.      *)
(* sea-orm's update() writes only the columns that were Set, so            *)
(* set_blocked, extend and bind_hwid each rewrite their own columns only.  *)
(*                                                                         *)
(* Spec is the heartbeat with the evictor and the administrative commands. *)
(* ExtendSpec is License::extend as a transaction of the store, TokenSpec  *)
(* the download tokens, BackupSpec the scheduled and on-demand backups and *)
(* LockSpec the heartbeat with the shard locks of the session map.         *)
(* PoolSpec puts the heartbeats, the evictor and the Ban command on the    *)
(* worker threads of the runtime; PeriodicSpec runs the evictor on its     *)
(* interval; StatsSpec adds the stats endpoint; DownloadSpec is the        *)
(* download endpoint with the builds table; CreateSpec is create and       *)
(* validate as their callers see them; TelemetrySpec is the heartbeat     *)
(* with a stats blob in its body; DecisionSpec is the scheduled backup     *)
(* next to everything that changes data; SchedSpec is the backup loop      *)
(* running for ever; SupervisorSpec is the plugin supervisor of            *)
(* src/src/plugins/mod.rs; CommandSpec is the chat commands with their     *)
(* sender; ChunkSpec is chunk_message of src/src/utils.rs and its caller.  *)
(* These start from the same state, the one after AppState::with_config    *)
(* over a store that holds one license.  EvictSpec starts the evictor from *)
(* any session store, ThinSpec starts the heartbeat from a store with      *)
(* sessions of two licenses, and PromoSpec starts claim_promo over a store *)
(* without licenses.                                                       *)
(***************************************************************************)
EXTENDS Integers, Sequences, FiniteSets, TLC

VARIABLES
  clock,      \* Utc::now(), seconds
  db,         \* licenses table: key -> row (partial function)
  sessions,   \* AppState::sessions: key -> Seq(Session) (partial function)
  pc,         \* position of each heartbeat request
  req,        \* locals of each heartbeat request
  out,        \* what the latest step answered or sent, if anything (key: the license key or token)
  adm,        \* the administrative command in progress
  ops,        \* requests, commands and clock advances so far
  banned,     \* keys whose Ban command has completed and that stayed blocked since
  ext,        \* locals of each extend call running in its own transaction
  dbver,      \* number of transactions the store has committed
  writer,     \* the transaction holding the store's write lock, 0 if none
  download_tokens,  \* AppState::download_tokens: token -> DownloadToken (partial function)
  issued,     \* every download token handed out so far: its record, and how often it was redeemed
  backup_hash,  \* AppState::backup_hash: fingerprint of the licenses at the last scheduled backup
  bk,         \* locals of the scheduled backup task
  fb,         \* locals of each on-demand backup
  files,      \* snapshot files present in the working directory
  guard,      \* the shard of the session map each heartbeat request holds locked, 0 if none
  parked,     \* the tasks that block a worker thread while they wait for a shard's lock
  st,         \* locals of the stats submission in progress
  builds,     \* builds table: version -> row, with whether the file at file_path is on disk
  dl,         \* locals of each download request
  promos,     \* claimed_promos table: the (tg_user_id, promo_name) pairs recorded
  cp,         \* locals of each claim_promo call
  made,       \* the record each successful create returned, by key
  blob,       \* the stats blob each heartbeat request carries, if any
  plug,       \* the supervisor task of each registered plugin
  ck          \* the latest call of chunk_message or reply_html_chunked

vars == <<clock, db, sessions, pc, req, out, adm, ops, banned, ext, dbver, writer,
          download_tokens, issued, backup_hash, bk, fb, files, guard, parked, st, builds, dl, promos, cp, made, blob, plug, ck>>

\* what the server's tasks on the worker pool leave alone
plAside == <<ext, dbver, writer, download_tokens, issued, backup_hash, bk, fb, files, st,
             builds, dl, promos, cp, made, blob, plug, ck>>

\* what a heartbeat with telemetry leaves alone besides the heartbeat's own variables
lkAside == <<plAside, parked>>

\* what the heartbeat and the administrative commands leave alone
aside == <<lkAside, guard>>

\* what an extend call leaves alone
extAside == <<sessions, pc, req, adm, banned, out, download_tokens, issued,
              backup_hash, bk, fb, files, guard, parked, st, builds, dl, promos, cp, made, blob, plug, ck>>

\* what the download tokens' operations leave alone
tokAside == <<db, sessions, pc, req, adm, banned, ext, dbver, writer,
              backup_hash, bk, fb, files, guard, parked, st, builds, dl, promos, cp, made, blob, plug, ck>>

\* what a stats submission leaves alone
stAside == <<clock, db, sessions, pc, req, adm, banned, ext, dbver, writer, download_tokens,
             issued, backup_hash, bk, fb, files, guard, parked, builds, dl, promos, cp, made, blob, plug, ck>>

\* what the backups leave alone
bkAside == <<clock, db, sessions, pc, req, adm, banned, ext, dbver, writer,
             download_tokens, issued, guard, parked, st, builds, dl, promos, cp, made, blob, plug, ck>>

\* what the plugin supervisor leaves alone
supAside == <<clock, db, sessions, pc, req, out, adm, ops, banned, ext, dbver, writer,
              download_tokens, issued, backup_hash, bk, fb, files, guard, parked, st,
              builds, dl, promos, cp, made, blob, ck>>

\* what chunking a message leaves alone
ckAside == <<clock, db, sessions, pc, req, out, adm, ops, banned, ext, dbver, writer,
            download_tokens, issued, backup_hash, bk, fb, files, guard, parked, st,
            builds, dl, promos, cp, made, blob, plug>>

----------------------------------------------------------------------------
(* Bounds of the model *)
MaxOps == 4
Workers == 2

(* Program constants *)
session_lifetime == 120
DaySecs == 86400
download_token_lifetime == 600

KeyOrder == <<"k1", "k2">>
Keys == {KeyOrder[i] : i \in 1..Len(KeyOrder)}
SessionIds == {"a", "b"}
MachineIds == {"m1", "m2"}
Owners == {1}
Procs == {1, 2}
Callers == {1, 2}
ExtDays == {0, 1}
TokenOrder == <<"t1", "t2">>
Tokens == {TokenOrder[i] : i \in 1..Len(TokenOrder)}
Versions == {"1.0", "1.1"}
Admins == {1, 2}
TokTickSteps == {1, download_token_lifetime - 1, download_token_lifetime + 1}
None == "none"

\* the heartbeat bodies clients send: <<key, session_id, machine_id>>
Requests ==
  {<<"k1", "a", "m1">>, <<"k1", "a", "m2">>, <<"k1", "b", "m1">>, <<"k1", "b", "m2">>,
   <<"k2", "a", "m1">>}

TickSteps == {1, session_lifetime - 1}
GenDays == {0, 1}
CreateMaxSessions == {5}
BuyDays == {-1, 30}

----------------------------------------------------------------------------
(* Session store helpers *)

Range(s) == {s[i] : i \in 1..Len(s)}

SessionsOf(store, k) == IF k \in DOMAIN store THEN store[k] ELSE <<>>

HasSession(store, k, sid) == \E s \in Range(SessionsOf(store, k)) : s.session_id = sid

count(store, k) == Len(SessionsOf(store, k))

RemoveKey(store, k) == [x \in (DOMAIN store) \ {k} |-> store[x]]

PutKey(store, k, v) == [x \in (DOMAIN store) \cup {k} |-> IF x = k THEN v ELSE store[x]]

IsLive_inclusive(s, now, timeout) == (now - s.last_seen) <= timeout

IsLive(s, now, timeout) == (now - s.last_seen) < timeout

Retain_touch(seq, now, timeout) ==
  LET live == SelectSeq(seq, LAMBDA s : IsLive(s, now, timeout))
  IN  [i \in 1..Len(live) |-> [live[i] EXCEPT !.last_seen = now]]

Retain_all(seq, now, timeout) == seq

Retain(seq, now, timeout) == SelectSeq(seq, LAMBDA s : IsLive(s, now, timeout))

NewSession(sid, mid, now) == [session_id |-> sid, hwid_hash |-> mid, last_seen |-> now]

drop_sessions(store, k) == RemoveKey(store, k)

gc_sessions(store, now) ==
  LET kept == {k \in DOMAIN store : Retain(store[k], now, session_lifetime) # <<>>}
  IN  [k \in kept |-> Retain(store[k], now, session_lifetime)]

RECURSIVE Total(_)
\* the number of sessions in the store
Total(store) ==
  IF DOMAIN store = {} THEN 0
  ELSE LET k == CHOOSE x \in DOMAIN store : TRUE
       IN  Len(store[k]) + Total(RemoveKey(store, k))

----------------------------------------------------------------------------
(* License service *)

NewLicense_hours(owner, ty, now, days, maxs) ==
  [tg_user_id |-> owner, license_type |-> ty, is_blocked |-> FALSE,
   expires_at |-> now + 3600 * days, created_at |-> now, hwid_hash |-> None,
   max_sessions |-> maxs]

NewLicense(owner, ty, now, days, maxs) ==
  [tg_user_id |-> owner, license_type |-> ty, is_blocked |-> FALSE,
   expires_at |-> now + DaySecs * days, created_at |-> now, hwid_hash |-> None,
   max_sessions |-> maxs]

Expired_never(lic, now) == FALSE

Expired(lic, now) == lic.expires_at < now

validate(table, k, now) ==
  IF k \notin DOMAIN table THEN "LicenseNotFound"
  ELSE IF table[k].is_blocked \/ Expired(table[k], now) THEN "LicenseInvalid"
  ELSE "Ok"

BaseTime_stack(lic, now) == lic.expires_at

BaseTime(lic, now) == IF lic.expires_at < now THEN now ELSE lic.expires_at

ExtendedExpiry(lic, now, days) == BaseTime(lic, now) + DaySecs * days

Max(a, b) == IF a >= b THEN a ELSE b

----------------------------------------------------------------------------
\* `license` before validate has returned a row
NoLicense == [max_sessions |-> 0, tg_user_id |-> 0]

IdleReq == [key |-> None, session_id |-> None, machine_id |-> None, now |-> 0,
            license |-> NoLicense]

\* magic_token: None
NoMagic == [negative |-> FALSE, magnitude |-> <<>>]

NoOut == [kind |-> None, proc |-> 0, key |-> None, session_id |-> None, machine_id |-> None,
          status |-> 0, path |-> None, current |-> 0, max |-> 0,
          result |-> None, days |-> 0, value |-> 0, was_blocked |-> FALSE,
          magic |-> NoMagic, license |-> NoLicense]

IdleAdm == [op |-> None, key |-> None]

PersistedRow == [tg_user_id |-> 1, license_type |-> "pro", is_blocked |-> FALSE, expires_at |-> 1,
                 created_at |-> 0, hwid_hash |-> None, max_sessions |-> 1]

EmptyMap == [x \in {} |-> 0]

\* an extend call that has not started
IdleExt == [pc |-> "idle", key |-> None, days |-> 0, expires_at |-> 0, snap |-> 0,
            now |-> 0, new_exp |-> 0, result |-> None, overlapped |-> FALSE]

InitDbs == {[x \in {"k1"} |-> PersistedRow]}

\* AtomicU64::new(0): no fingerprint stored yet
Sentinel == [zero |-> TRUE, rows |-> EmptyMap]

\* made: snapshots the scheduled task has produced so far
\* licenses, before: the rows this run read and the rows the run before it read;
\* first: the rows the first run read; snap: the rows in the latest snapshot
IdleBk == [pc |-> "idle", new_hash |-> Sentinel, prev |-> Sentinel, timestamp |-> 0,
           todo |-> {}, made |-> 0, licenses |-> EmptyMap, before |-> EmptyMap,
           first |-> EmptyMap, snap |-> EmptyMap]

IdleFb == [pc |-> "idle", timestamp |-> 0]

\* no call yet; text is a sequence of bytes, last_msg the chunk sent last
IdleCk == [pc |-> "idle", text |-> <<>>, max_len |-> 0, chunks |-> <<>>, todo |-> <<>>,
           last_msg |-> <<>>, sent |-> 0, result |-> None]

\* plugins handed to App::register
Plugins == {"Server", "Telegram"}

\* sleep(Duration::from_secs(5))
restart_delay == 5

\* sup: where the supervisor's loop stands; running: instances of start() alive;
\* joined: what handle.await returned, once the instance has ended; left: seconds
\* the sleep still has to last; last: how the instance before this one ended
IdlePlug == [p \in Plugins |->
              [sup |-> "spawn", running |-> 0, joined |-> None, left |-> 0, last |-> None]]

\* no stats submission in progress
IdleSt == [pc |-> "idle", key |-> None, session_id |-> None, data |-> None]

\* a claim_promo call that has not started; key: the license it created, if any
IdleCp == [pc |-> "idle", tg_user_id |-> 0, promo_name |-> None, key |-> None]

\* a download request that has not started; downloads: the counter its increment read
IdleDl == [pc |-> "idle", token |-> None, version |-> None, downloads |-> 0]

\* Build::create: a published build is active and has no downloads
NewBuild(on_disk) == [is_active |-> TRUE, downloads |-> 0, on_disk |-> on_disk]

\* 1.0 was published and its file is in the builds folder; the file of 1.1 is gone
InitBuilds == [v \in Versions |-> NewBuild(v = "1.0")]

Init ==
  /\ clock = 0
  /\ db \in InitDbs
  /\ sessions = EmptyMap
  /\ pc = [p \in Procs |-> "idle"]
  /\ req = [p \in Procs |-> IdleReq]
  /\ out = NoOut
  /\ adm = IdleAdm
  /\ ops = 0
  /\ banned = {}
  /\ ext = [c \in Callers |-> IdleExt]
  /\ dbver = 0
  /\ writer = 0
  /\ download_tokens = EmptyMap
  /\ issued = EmptyMap
  /\ backup_hash = Sentinel
  /\ bk = IdleBk
  /\ fb = [c \in Admins |-> IdleFb]
  /\ files = {}
  /\ guard = [p \in Procs |-> 0]
  /\ parked = {}
  /\ st = IdleSt
  /\ builds = InitBuilds
  /\ dl = [c \in Callers |-> IdleDl]
  /\ promos = {}
  /\ cp = [c \in Callers |-> IdleCp]
  /\ made = EmptyMap
  /\ blob = [p \in Procs |-> None]
  /\ plug = IdlePlug
  /\ ck = IdleCk

----------------------------------------------------------------------------
\* one more input from the environment
Spend == ops < MaxOps /\ ops' = ops + 1

\* a step that answers nothing
Silent == out' = NoOut

(* Clock *)
Tick ==
  /\ Spend
  /\ \E d \in TickSteps : clock' = clock + d
  /\ UNCHANGED <<db, sessions, pc, req, adm, banned>>
  /\ UNCHANGED aside
  /\ Silent

----------------------------------------------------------------------------
(* generate_magic, src/src/handlers.rs:54-63.  A u64 is its eight bytes, least  *)
(* significant first; an i64 is a sign and the bytes of its magnitude.          *)

\* the bytes of the strings of the model
Utf8 == [a |-> <<97>>, b |-> <<98>>, sk |-> <<115, 107>>]

\* AppState::secret (SERVER_SECRET)
secret == "sk"

\* 0xcbf29ce484222325
fnv_offset_basis == <<37, 35, 34, 132, 228, 156, 242, 203>>

\* 0x100000001b3
fnv_prime == <<179, 1, 0, 0, 0, 1, 0, 0>>

RECURSIVE BitXor(_, _)
BitXor(x, y) ==
  IF x = 0 /\ y = 0 THEN 0
  ELSE (((x % 2) + (y % 2)) % 2) + 2 * BitXor(x \div 2, y \div 2)

\* hash ^= byte as u64
XorByte(hash, byte) == [hash EXCEPT ![1] = BitXor(hash[1], byte)]

RECURSIVE Column(_, _, _, _)
\* the products a[j] * b[i + 1 - j] for j = from..i: the terms of weight 256^(i - 1)
Column(a, b, i, from) ==
  IF from > i THEN 0 ELSE a[from] * b[i + 1 - from] + Column(a, b, i, from + 1)

RECURSIVE MulFrom(_, _, _, _)
MulFrom(a, b, i, carry) ==
  IF i > 8 THEN <<>>
  ELSE LET t == Column(a, b, i, 1) + carry
       IN  <<t % 256>> \o MulFrom(a, b, i + 1, t \div 256)

\* u64::wrapping_mul: the product modulo 2^64
wrapping_mul(a, b) == MulFrom(a, b, 1, 0)

Mix_fnv1(hash, byte) == XorByte(wrapping_mul(hash, fnv_prime), byte)

\* one round: xor the byte in, then multiply by the prime
Mix(hash, byte) == wrapping_mul(XorByte(hash, byte), fnv_prime)

RECURSIVE Fnv(_, _)
Fnv(hash, bytes) ==
  IF bytes = <<>> THEN hash ELSE Fnv(Mix(hash, Head(bytes)), Tail(bytes))

RECURSIVE NegFrom(_, _, _)
\* 2^64 - h: complement every byte and add one
NegFrom(h, i, carry) ==
  IF i > 8 THEN <<>>
  ELSE LET t == (255 - h[i]) + carry
       IN  <<t % 256>> \o NegFrom(h, i + 1, t \div 256)

\* hash as i64: the same 64 bits read in two's complement
AsI64(h) ==
  IF h[8] >= 128 THEN [negative |-> TRUE, magnitude |-> NegFrom(h, 1, 1)]
                 ELSE [negative |-> FALSE, magnitude |-> h]

Combined_secret_first(session_id, sec) == Utf8[sec] \o Utf8[session_id]

\* format!("{}{}", session_id, secret)
Combined(session_id, sec) == Utf8[session_id] \o Utf8[sec]

generate_magic(session_id, sec) == AsI64(Fnv(fnv_offset_basis, Combined(session_id, sec)))

\* line 71 for every session id a request can carry
Magic == [sid \in SessionIds |-> generate_magic(sid, secret)]

----------------------------------------------------------------------------
(* Heartbeat, src/src/handlers.rs:66-158 *)

Request(k, sid, mid, now) ==
  [IdleReq EXCEPT !.key = k, !.session_id = sid, !.machine_id = mid, !.now = now]

\* (status, Json(HeartbeatRes)) of request r
Response(p, r, status, path, cur, max) ==
  [NoOut EXCEPT !.kind = "heartbeat", !.proc = p, !.key = r.key,
                !.session_id = r.session_id, !.machine_id = r.machine_id,
                !.status = status, !.path = path, !.current = cur, !.max = max,
                !.magic = IF status = 200 THEN Magic[r.session_id] ELSE NoMagic]

\* the handler returns (status, body): the request slot becomes free again
Respond(p, r, status, path, cur, max) ==
  /\ out' = Response(p, r, status, path, cur, max)
  /\ pc' = [pc EXCEPT ![p] = "idle"]
  /\ req' = [req EXCEPT ![p] = IdleReq]

Refresh_rebind(seq, sid, mid, now) ==
  LET i == CHOOSE j \in 1..Len(seq) :
             /\ seq[j].session_id = sid
             /\ \A h \in 1..(j - 1) : seq[h].session_id # sid
  IN  [seq EXCEPT ![i].last_seen = now, ![i].hwid_hash = mid]

\* sessions.iter_mut().find(..): the first session with that id gets last_seen = now
Refresh(seq, sid, mid, now) ==
  LET i == CHOOSE j \in 1..Len(seq) :
             /\ seq[j].session_id = sid
             /\ \A h \in 1..(j - 1) : seq[h].session_id # sid
  IN  [seq EXCEPT ![i].last_seen = now]

FastPathHit_hw(store, k, sid, mid) ==
  \E s \in Range(SessionsOf(store, k)) : s.session_id = sid /\ s.hwid_hash = mid

FastPathHit(store, k, sid, mid) == HasSession(store, k, sid)

\* request slots are interchangeable: a new request takes the lowest free one
FreeSlot(p) == pc[p] = "idle" /\ \A q \in Procs : q < p => pc[q] # "idle"

\* lines 70-79: read the clock, look the session up, refresh it if present
Start(p, k, sid, mid) ==
  /\ FreeSlot(p)
  /\ Spend
  /\ IF FastPathHit(sessions, k, sid, mid)
       THEN /\ sessions' = [sessions EXCEPT ![k] = Refresh(sessions[k], sid, mid, clock)]
            /\ Respond(p, Request(k, sid, mid, clock), 200, "fast", 0, 0)
       ELSE /\ pc' = [pc EXCEPT ![p] = "validate"]
            /\ req' = [req EXCEPT ![p] = Request(k, sid, mid, clock)]
            /\ UNCHANGED sessions
            /\ Silent
  /\ UNCHANGED <<clock, db, adm, banned>>

HbStart(p, k, sid, mid) == Start(p, k, sid, mid) /\ UNCHANGED aside

HwidMismatch_off(lic, mid) == FALSE

HwidMismatch(lic, mid) == lic.hwid_hash # None /\ lic.hwid_hash # mid

\* what the rest of the handler reads from the row validate returned
Snapshot(lic) == [max_sessions |-> lic.max_sessions, tg_user_id |-> lic.tg_user_id]

\* lines 82-117: LicenseService::validate, then the HWID check on the row it returned
HbValidate(p) ==
  /\ pc[p] = "validate"
  /\ LET k == req[p].key
         r == validate(db, k, clock)
     IN  CASE r = "LicenseNotFound" ->
                /\ pc' = [pc EXCEPT ![p] = "drop401"]
                /\ UNCHANGED req
                /\ Silent
           [] r = "LicenseInvalid" ->
                /\ pc' = [pc EXCEPT ![p] = "drop403"]
                /\ UNCHANGED req
                /\ Silent
           [] r = "Ok" ->
                IF HwidMismatch(db[k], req[p].machine_id)
                  THEN Respond(p, req[p], 403, "hwid", 0, 0)
                  ELSE /\ pc' = [pc EXCEPT ![p] =
                                   IF db[k].hwid_hash = None THEN "bind" ELSE "admit"]
                       /\ req' = [req EXCEPT ![p].license = Snapshot(db[k])]
                       /\ Silent
  /\ UNCHANGED <<clock, ops, db, sessions, adm, banned>>
  /\ UNCHANGED aside

\* lines 98-103: the store failed while validating
HbValidateDbErr(p) ==
  /\ pc[p] = "validate"
  /\ Respond(p, req[p], 500, "error", 0, 0)
  /\ UNCHANGED <<clock, ops, db, sessions, adm, banned>>
  /\ UNCHANGED aside

RejectStatus(at) == IF at = "drop401" THEN 401 ELSE 403

AfterReject_keep(store, k) == store

AfterReject(store, k) == drop_sessions(store, k)

\* lines 84-97: drop the key's sessions and answer 401 / 403
Reject(p) ==
  /\ pc[p] \in {"drop401", "drop403"}
  /\ sessions' = AfterReject(sessions, req[p].key)
  /\ Respond(p, req[p], RejectStatus(pc[p]), "reject", 0, 0)
  /\ UNCHANGED <<clock, ops, db, adm, banned>>

HbReject(p) == Reject(p) /\ UNCHANGED aside

\* LicenseService::bind_hwid: find the row, UPDATE its hwid_hash column
bind_hwid(table, k, mid) ==
  IF k \in DOMAIN table THEN [table EXCEPT ![k].hwid_hash = mid] ELSE table

\* line 116: first use, bind the HWID (the result is discarded)
HbBind(p) ==
  /\ pc[p] = "bind"
  /\ db' = bind_hwid(db, req[p].key, req[p].machine_id)
  /\ pc' = [pc EXCEPT ![p] = "admit"]
  /\ UNCHANGED <<clock, ops, sessions, req, adm, banned>>
  /\ UNCHANGED aside
  /\ Silent

LimitReached_strict(n, max) == n > max

LimitReached(n, max) == n >= max

\* lines 119-144: entry().or_insert_with, thin GC, limit check, push
Admit(p) ==
  /\ pc[p] = "admit"
  /\ LET k == req[p].key
         entry == Retain(SessionsOf(sessions, k), req[p].now, session_lifetime)
         max == req[p].license.max_sessions
     IN  IF LimitReached(Len(entry), max)
           THEN /\ sessions' = PutKey(sessions, k, entry)
                /\ Respond(p, req[p], 409, "slow", Len(entry), max)
           ELSE /\ sessions' = PutKey(sessions, k,
                       Append(entry, NewSession(req[p].session_id, req[p].machine_id, req[p].now)))
                /\ Respond(p, req[p], 200, "slow", 0, 0)
  /\ UNCHANGED <<clock, ops, db, adm, banned>>

HbAdmit(p) == Admit(p) /\ UNCHANGED aside

----------------------------------------------------------------------------
(* Periodic evictor, src/src/main.rs:83-90 *)
\* gc_sessions with the time it read; out: sessions removed (current) and kept (max)
Evict(now) ==
  /\ sessions' = gc_sessions(sessions, now)
  /\ out' = [NoOut EXCEPT !.kind = "gc", !.value = now,
                          !.current = Total(sessions) - Total(sessions'),
                          !.max = Total(sessions')]
  /\ UNCHANGED <<clock, ops, db, pc, req, adm, banned>>

\* a run of the evictor that removes something
GcSessions ==
  /\ Evict(clock)
  /\ sessions' # sessions
  /\ UNCHANGED aside

\* The evictor on its own, started in a state where sessions of two licenses
\* are stored: each key has no entry or one or two sessions, last seen at 0 or 1.
StoredLists ==
  {<<NewSession(sid, "m1", t)>> : sid \in SessionIds, t \in {0, 1}}
    \cup {<<NewSession("a", "m1", t), NewSession("b", "m1", u)>> : t, u \in {0, 1}}

Stores ==
  UNION {[ks -> StoredLists] : ks \in SUBSET Keys}

InitEvict ==
  /\ clock = 1
  /\ db = [k \in Keys |-> NewLicense(1, "pro", 0, 1, 5)]
  /\ sessions \in Stores
  /\ pc = [p \in Procs |-> "idle"]
  /\ req = [p \in Procs |-> IdleReq]
  /\ out = NoOut
  /\ adm = IdleAdm
  /\ ops = 0
  /\ banned = {}
  /\ ext = [c \in Callers |-> IdleExt]
  /\ dbver = 0
  /\ writer = 0
  /\ download_tokens = EmptyMap
  /\ issued = EmptyMap
  /\ backup_hash = Sentinel
  /\ bk = IdleBk
  /\ fb = [c \in Admins |-> IdleFb]
  /\ files = {}
  /\ guard = [p \in Procs |-> 0]
  /\ parked = {}
  /\ st = IdleSt
  /\ builds = InitBuilds
  /\ dl = [c \in Callers |-> IdleDl]
  /\ promos = {}
  /\ cp = [c \in Callers |-> IdleCp]
  /\ made = EmptyMap
  /\ blob = [p \in Procs |-> None]
  /\ plug = IdlePlug
  /\ ck = IdleCk

EvictSpec == InitEvict /\ [][Tick \/ GcSessions]_vars

\* The heartbeat without the evictor, started a session lifetime after two
\* licenses were created: k1 by sv::License::create (one session allowed, bound
\* to m1 by its first heartbeat), k2 by LicenseService::create (five allowed).
\* k1 is good for a day; k2 for a day or, made with zero days, expired since 0.
\* k1 has one session stored, k2 none, one or two, each last seen at 0 or 1.
ThinDbs ==
  {[k \in Keys |-> IF k = "k1"
                     THEN [NewLicense(1, "pro", 0, 1, 1) EXCEPT !.hwid_hash = "m1"]
                     ELSE NewLicense(1, "pro", 0, days, 5)] : days \in GenDays}

ThinStores ==
  {[k \in ks \cup {"k1"} |-> IF k = "k1" THEN one ELSE more] :
     ks \in SUBSET Keys,
     one \in {l \in StoredLists : Len(l) = 1},
     more \in StoredLists}

InitThin ==
  /\ clock = session_lifetime
  /\ db \in ThinDbs
  /\ sessions \in ThinStores
  /\ pc = [p \in Procs |-> "idle"]
  /\ req = [p \in Procs |-> IdleReq]
  /\ out = NoOut
  /\ adm = IdleAdm
  /\ ops = 0
  /\ banned = {}
  /\ ext = [c \in Callers |-> IdleExt]
  /\ dbver = 0
  /\ writer = 0
  /\ download_tokens = EmptyMap
  /\ issued = EmptyMap
  /\ backup_hash = Sentinel
  /\ bk = IdleBk
  /\ fb = [c \in Admins |-> IdleFb]
  /\ files = {}
  /\ guard = [p \in Procs |-> 0]
  /\ parked = {}
  /\ st = IdleSt
  /\ builds = InitBuilds
  /\ dl = [c \in Callers |-> IdleDl]
  /\ promos = {}
  /\ cp = [c \in Callers |-> IdleCp]
  /\ made = EmptyMap
  /\ blob = [p \in Procs |-> None]
  /\ plug = IdlePlug
  /\ ck = IdleCk

ThinNext ==
  \/ Tick
  \/ \E p \in Procs, r \in Requests : HbStart(p, r[1], r[2], r[3])
  \/ \E p \in Procs : HbValidate(p)
  \/ \E p \in Procs : HbValidateDbErr(p)
  \/ \E p \in Procs : HbReject(p)
  \/ \E p \in Procs : HbBind(p)
  \/ \E p \in Procs : HbAdmit(p)

ThinSpec == InitThin /\ [][ThinNext]_vars

\* The evictor as a periodic task next to the heartbeats: time passes from one
\* firing of its interval (main.rs:85) to the next, up to a horizon that leaves
\* every request a full session lifetime of firings after it.
gc_interval == 60

Horizon == session_lifetime + 2 * gc_interval

Pass ==
  /\ clock < Horizon
  /\ clock' = clock + gc_interval
  /\ UNCHANGED <<ops, db, sessions, pc, req, adm, banned>>
  /\ UNCHANGED aside
  /\ Silent

\* a heartbeat that arrives while a session lifetime is left before the horizon
Arrive(p, k, sid, mid) ==
  /\ clock + session_lifetime <= Horizon
  /\ HbStart(p, k, sid, mid)

PeriodicNext ==
  \/ Pass
  \/ GcSessions
  \/ \E p \in Procs, r \in Requests : Arrive(p, r[1], r[2], r[3])
  \/ \E p \in Procs : HbValidate(p)
  \/ \E p \in Procs : HbValidateDbErr(p)
  \/ \E p \in Procs : HbReject(p)
  \/ \E p \in Procs : HbBind(p)
  \/ \E p \in Procs : HbAdmit(p)

\* the interval keeps firing and each firing runs gc_sessions
PeriodicSpec ==
  Init /\ [][PeriodicNext]_vars /\ WF_vars(Pass) /\ WF_vars(GcSessions)

----------------------------------------------------------------------------
(* Administrative commands, src/src/plugins/telegram/command.rs:351-393 *)

AdmStart == adm.op = None /\ Spend

Result(kind, k, result, days, value) ==
  out' = [NoOut EXCEPT !.kind = kind, !.key = k, !.result = result, !.days = days,
                       !.value = value]

\* Uuid::new_v4(): a key no row has yet
FreshKey(table) ==
  LET i == CHOOSE j \in 1..Len(KeyOrder) :
             /\ KeyOrder[j] \notin DOMAIN table
             /\ \A h \in 1..(j - 1) : KeyOrder[h] \in DOMAIN table
  IN  KeyOrder[i]

\* /gen: License::create
AdminGen(owner, days, maxs) ==
  /\ AdmStart
  /\ Keys \ DOMAIN db # {}
  /\ db' = PutKey(db, FreshKey(db), NewLicense(owner, "pro", clock, days, maxs))
  /\ Result("gen", FreshKey(db), "Ok", days, clock + DaySecs * days)
  /\ UNCHANGED <<clock, sessions, pc, req, adm, banned>>
  /\ UNCHANGED aside

extend_keep_blocked(table, k, now, days) ==
  [table EXCEPT ![k].expires_at = ExtendedExpiry(table[k], now, days)]

\* License::extend as one transaction: read the row, write expires_at and is_blocked
extend(table, k, now, days) ==
  [table EXCEPT ![k].expires_at = ExtendedExpiry(table[k], now, days),
                ![k].is_blocked = FALSE]

\* /buy: License::extend; a negative day count overflows the duration and panics
AdminBuy(k, days) ==
  /\ AdmStart
  /\ IF k \notin DOMAIN db
       THEN /\ Result("buy", k, "LicenseNotFound", days, 0)
            /\ UNCHANGED <<db, banned>>
       ELSE IF days < 0
         THEN /\ Result("buy", k, "Panic", days, 0)
              /\ UNCHANGED <<db, banned>>
         ELSE /\ db' = extend(db, k, clock, days)
              /\ out' = [NoOut EXCEPT !.kind = "buy", !.key = k, !.result = "Ok",
                                      !.days = days,
                                      !.value = ExtendedExpiry(db[k], clock, days),
                                      !.was_blocked = db[k].is_blocked]
              /\ banned' = banned \ {k}
  /\ UNCHANGED <<clock, sessions, pc, req, adm>>
  /\ UNCHANGED aside

set_blocked(table, k, flag) == [table EXCEPT ![k].is_blocked = flag]

\* /ban, up to the await: License::set_blocked(key, true)
AdminBanSetBlocked(k) ==
  /\ AdmStart
  /\ IF k \notin DOMAIN db
       THEN /\ Result("ban", k, "LicenseNotFound", 0, 0)
            /\ UNCHANGED <<db, adm>>
       ELSE /\ db' = set_blocked(db, k, TRUE)
            /\ adm' = [op |-> "ban_drop", key |-> k]
            /\ Silent
  /\ UNCHANGED <<clock, sessions, pc, req, banned>>
  /\ UNCHANGED aside

\* /ban, after the await: app.drop_sessions(&key)
BanDrop ==
  /\ adm.op = "ban_drop"
  /\ sessions' = drop_sessions(sessions, adm.key)
  /\ adm' = IdleAdm
  /\ Result("ban", adm.key, "Ok", 0, 0)
  /\ banned' = banned \cup {adm.key}
  /\ UNCHANGED <<clock, ops, db, pc, req>>

AdminBanDrop == BanDrop /\ UNCHANGED aside

\* /unban: License::set_blocked(key, false)
AdminUnban(k) ==
  /\ AdmStart
  /\ IF k \notin DOMAIN db
       THEN /\ Result("unban", k, "LicenseNotFound", 0, 0)
            /\ UNCHANGED <<db, banned>>
       ELSE /\ db' = set_blocked(db, k, FALSE)
            /\ Result("unban", k, "Ok", 0, 0)
            /\ banned' = banned \ {k}
  /\ UNCHANGED <<clock, sessions, pc, req, adm>>
  /\ UNCHANGED aside

----------------------------------------------------------------------------
Next ==
  \/ Tick
  \/ \E p \in Procs, r \in Requests : HbStart(p, r[1], r[2], r[3])
  \/ \E p \in Procs : HbValidate(p)
  \/ \E p \in Procs : HbValidateDbErr(p)
  \/ \E p \in Procs : HbReject(p)
  \/ \E p \in Procs : HbBind(p)
  \/ \E p \in Procs : HbAdmit(p)
  \/ GcSessions
  \/ \E o \in Owners, d \in GenDays, m \in CreateMaxSessions : AdminGen(o, d, m)
  \/ \E k \in Keys, d \in BuyDays : AdminBuy(k, d)
  \/ \E k \in Keys : AdminBanSetBlocked(k)
  \/ AdminBanDrop
  \/ \E k \in Keys : AdminUnban(k)

Spec == Init /\ [][Next]_vars

TypeOK ==
  /\ clock \in Nat
  /\ DOMAIN db \subseteq Keys
  /\ DOMAIN sessions \subseteq Keys
  /\ \A p \in Procs : pc[p] \in {"idle", "start", "validate", "drop401", "drop403", "bind",
                                  "admit", "telemetry"}

----------------------------------------------------------------------------
(* License::extend, src/src/sv/license.rs:77-100, one call per caller, each in  *)
(* its own transaction of the store (SQLite, src/src/main.rs:51).  A            *)
(* transaction takes its read snapshot at its first SELECT; the store lets it  *)
(* write only while no other transaction holds the write lock and nothing was  *)
(* committed since its snapshot, and fails the statement otherwise (the caller *)
(* then drops the transaction, which rolls it back).                           *)

\* line 78: self.db.begin()
ExtBegin(c, k, days) ==
  /\ ext[c].pc = "idle"
  /\ \A q \in Callers : q < c => ext[q].pc # "idle"
  /\ Spend
  /\ ext' = [ext EXCEPT ![c] = [IdleExt EXCEPT !.pc = "select", !.key = k, !.days = days,
                 !.overlapped = \E q \in Callers : ext[q].pc \in {"select", "update", "commit"}]]
  /\ UNCHANGED <<clock, db, dbver, writer>>
  /\ UNCHANGED extAside

\* lines 80-83: find_by_id(key).one(&txn), or LicenseNotFound
ExtSelect(c) ==
  /\ ext[c].pc = "select"
  /\ ext' = [ext EXCEPT ![c] =
               IF ext[c].key \in DOMAIN db
                 THEN [@ EXCEPT !.pc = "update", !.expires_at = db[ext[c].key].expires_at,
                                !.snap = dbver]
                 ELSE [@ EXCEPT !.pc = "done", !.result = "LicenseNotFound"]]
  /\ UNCHANGED <<clock, ops, db, dbver, writer>>
  /\ UNCHANGED extAside

CanWrite_always(c) == TRUE

\* update(&txn) takes the write lock; a stale snapshot or a held lock fails it
CanWrite(c) == writer = 0 /\ ext[c].snap = dbver

\* lines 85-96: read the clock, compute new_exp from the row read, UPDATE in the transaction
ExtUpdate(c) ==
  /\ ext[c].pc = "update"
  /\ LET now == clock
         new_exp == ExtendedExpiry([expires_at |-> ext[c].expires_at], now, ext[c].days)
     IN  IF CanWrite(c)
           THEN /\ ext' = [ext EXCEPT ![c].pc = "commit", ![c].now = now,
                                      ![c].new_exp = new_exp]
                /\ writer' = c
           ELSE /\ ext' = [ext EXCEPT ![c].pc = "done", ![c].now = now,
                                      ![c].result = "DbErr"]
                /\ UNCHANGED writer
  /\ UNCHANGED <<clock, ops, db, dbver>>
  /\ UNCHANGED extAside

\* lines 98-99: txn.commit() publishes the write; Ok(new_exp)
ExtCommit(c) ==
  /\ ext[c].pc = "commit"
  /\ db' = [db EXCEPT ![ext[c].key].expires_at = ext[c].new_exp,
                      ![ext[c].key].is_blocked = FALSE]
  /\ dbver' = dbver + 1
  /\ writer' = IF writer = c THEN 0 ELSE writer
  /\ ext' = [ext EXCEPT ![c].pc = "done", ![c].result = "Ok"]
  /\ UNCHANGED <<clock, ops>>
  /\ UNCHANGED extAside

\* line 98: txn.commit() fails; the transaction is dropped and rolled back
ExtCommitErr(c) ==
  /\ ext[c].pc = "commit"
  /\ writer' = IF writer = c THEN 0 ELSE writer
  /\ ext' = [ext EXCEPT ![c].pc = "done", ![c].result = "DbErr"]
  /\ UNCHANGED <<clock, ops, db, dbver>>
  /\ UNCHANGED extAside

ExtNext ==
  \/ Tick
  \/ \E c \in Callers, k \in Keys, d \in ExtDays : ExtBegin(c, k, d)
  \/ \E c \in Callers : ExtSelect(c)
  \/ \E c \in Callers : ExtUpdate(c)
  \/ \E c \in Callers : ExtCommit(c)
  \/ \E c \in Callers : ExtCommitErr(c)

ExtendSpec == Init /\ [][ExtNext]_vars

----------------------------------------------------------------------------
(* Download tokens, src/src/state.rs:234-263.  A token is issued when a user   *)
(* picks a version (src/src/plugins/telegram/callback.rs:368) and redeemed by  *)
(* the download endpoint (src/src/plugins/server/handlers.rs:145).             *)

TokTick ==
  /\ Spend
  /\ \E d \in TokTickSteps : clock' = clock + d
  /\ UNCHANGED <<download_tokens, issued>>
  /\ UNCHANGED tokAside
  /\ Silent

\* Uuid::new_v4(): a token never handed out before
FreshToken(given) ==
  LET i == CHOOSE j \in 1..Len(TokenOrder) :
             /\ TokenOrder[j] \notin DOMAIN given
             /\ \A h \in 1..(j - 1) : TokenOrder[h] \in DOMAIN given
  IN  TokenOrder[i]

NewDownloadToken(version, now) == [version |-> version, created_at |-> now]

\* create_download_token(version)
CreateDownloadToken(version) ==
  /\ Spend
  /\ Tokens \ DOMAIN issued # {}
  /\ LET token == FreshToken(issued)
     IN  /\ download_tokens' = PutKey(download_tokens, token, NewDownloadToken(version, clock))
         /\ issued' = PutKey(issued, token, [record |-> NewDownloadToken(version, clock),
                                             redeemed |-> 0])
         /\ out' = [NoOut EXCEPT !.kind = "token", !.key = token, !.result = version]
  /\ UNCHANGED clock
  /\ UNCHANGED tokAside

TokenLive_inclusive(dt, now, timeout) == (now - dt.created_at) <= timeout

TokenLive(dt, now, timeout) == (now - dt.created_at) < timeout

\* validate_download_token(token): Some(version) or None
validate_download_token(table, token, now) ==
  IF token \in DOMAIN table /\ TokenLive(table[token], now, download_token_lifetime)
    THEN table[token].version
    ELSE None

AfterRedeem_consume(table, token) == RemoveKey(table, token)

\* validate_download_token takes the table by shared reference and only reads it
AfterRedeem(table, token) == table

\* the download endpoint redeems the token of the query: the version, or 401
Redeem(token) ==
  /\ Spend
  /\ LET version == validate_download_token(download_tokens, token, clock)
     IN  /\ out' = [NoOut EXCEPT !.kind = "redeem", !.key = token, !.result = version,
                                 !.status = IF version = None THEN 401 ELSE 200,
                                 !.value = clock]
         /\ issued' = IF version # None /\ token \in DOMAIN issued
                        THEN [issued EXCEPT ![token].redeemed = @ + 1]
                        ELSE issued
  /\ download_tokens' = AfterRedeem(download_tokens, token)
  /\ UNCHANGED clock
  /\ UNCHANGED tokAside

gc_download_tokens_all(table, now) == EmptyMap

gc_download_tokens(table, now) ==
  [t \in {x \in DOMAIN table : TokenLive(table[x], now, download_token_lifetime)} |-> table[t]]

\* the sweeper: gc_download_tokens()
GcDownloadTokens ==
  /\ download_tokens' = gc_download_tokens(download_tokens, clock)
  /\ download_tokens' # download_tokens
  /\ UNCHANGED <<clock, ops, issued>>
  /\ UNCHANGED tokAside
  /\ Silent

TokNext ==
  \/ TokTick
  \/ \E v \in Versions : CreateDownloadToken(v)
  \/ \E t \in Tokens : Redeem(t)
  \/ GcDownloadTokens

TokenSpec == Init /\ [][TokNext]_vars

----------------------------------------------------------------------------
(* The download endpoint, src/src/plugins/server/handlers.rs:141-195, with     *)
(* Build::increment_downloads, src/src/sv/build.rs:58-70.  The handler awaits  *)
(* the store and the file system in turn; two requests interleave at these     *)
(* awaits.  Yank and Unyank are the administrator's commands on a build,       *)
(* src/src/plugins/telegram/command.rs:453-486.                                *)

\* what a download request leaves alone
dlAside == <<clock, db, sessions, pc, req, adm, banned, ext, dbver, writer, download_tokens,
             issued, backup_hash, bk, fb, files, guard, parked, st, promos, cp, made, blob, plug, ck>>

DlRes(c, status, message) ==
  [NoOut EXCEPT !.kind = "download", !.proc = c, !.key = dl[c].token,
                !.result = message, !.status = status]

\* GET /api/download?token=..: the token is checked first
DlStart(c, token) ==
  /\ Spend
  /\ dl[c].pc = "idle"
  /\ LET version == validate_download_token(download_tokens, token, clock)
     IN  IF version = None
           THEN /\ out' = [NoOut EXCEPT !.kind = "download", !.proc = c, !.key = token,
                                        !.status = 401,
                                        !.result = "Invalid or expired download token"]
                /\ dl' = dl
           ELSE /\ dl' = [dl EXCEPT ![c] = [IdleDl EXCEPT !.pc = "by_version",
                                                          !.token = token,
                                                          !.version = version]]
                /\ Silent
  /\ UNCHANGED builds
  /\ UNCHANGED dlAside

\* by_version(&version) answers; the build must be active and its file on disk
DlLookup(c) ==
  /\ dl[c].pc = "by_version"
  /\ LET build == builds[dl[c].version]
     IN  IF ~build.is_active
           THEN /\ out' = DlRes(c, 404, "Build not found")
                /\ dl' = [dl EXCEPT ![c] = IdleDl]
           ELSE IF ~build.on_disk
             THEN /\ out' = DlRes(c, 404, "Build file not found")
                  /\ dl' = [dl EXCEPT ![c] = IdleDl]
             ELSE /\ dl' = [dl EXCEPT ![c].pc = "open"]
                  /\ Silent
  /\ UNCHANGED <<ops, builds>>
  /\ UNCHANGED dlAside

\* by_version(&version) fails in the store: the same answer as an unknown build
DlLookupErr(c) ==
  /\ dl[c].pc = "by_version"
  /\ out' = DlRes(c, 404, "Build not found")
  /\ dl' = [dl EXCEPT ![c] = IdleDl]
  /\ UNCHANGED <<ops, builds>>
  /\ UNCHANGED dlAside

\* File::open(path) succeeds; increment_downloads is called next
DlOpen(c) ==
  /\ dl[c].pc = "open"
  /\ dl' = [dl EXCEPT ![c].pc = "find"]
  /\ Silent
  /\ UNCHANGED <<ops, builds>>
  /\ UNCHANGED dlAside

\* File::open(path) fails although the path exists
DlOpenErr(c) ==
  /\ dl[c].pc = "open"
  /\ out' = DlRes(c, 500, "Failed to open file")
  /\ dl' = [dl EXCEPT ![c] = IdleDl]
  /\ UNCHANGED <<ops, builds>>
  /\ UNCHANGED dlAside

\* increment_downloads: the row is read
DlFind(c) ==
  /\ dl[c].pc = "find"
  /\ dl' = [dl EXCEPT ![c].pc = "update", ![c].downloads = builds[dl[c].version].downloads]
  /\ Silent
  /\ UNCHANGED <<ops, builds>>
  /\ UNCHANGED dlAside

\* downloads: Set(build.downloads + 1), of the row as it was read
Incremented(row, read) == read + 1

\* increment_downloads: the row is written, then the file is streamed
DlUpdate(c) ==
  /\ dl[c].pc = "update"
  /\ builds' = [builds EXCEPT ![dl[c].version].downloads =
                                Incremented(builds[dl[c].version], dl[c].downloads)]
  /\ out' = [DlRes(c, 200, dl[c].version) EXCEPT !.value = dl[c].downloads]
  /\ dl' = [dl EXCEPT ![c] = IdleDl]
  /\ UNCHANGED ops
  /\ UNCHANGED dlAside

\* Build::deactivate / Build::activate
set_active(table, version, flag) == [table EXCEPT ![version].is_active = flag]

\* /yank <version>: refused for a build that is already inactive
Yank(version) ==
  /\ Spend
  /\ builds[version].is_active
  /\ builds' = set_active(builds, version, FALSE)
  /\ Silent
  /\ UNCHANGED dl
  /\ UNCHANGED dlAside

\* /unyank <version>: refused for a build that is active
Unyank(version) ==
  /\ Spend
  /\ ~builds[version].is_active
  /\ builds' = set_active(builds, version, TRUE)
  /\ Silent
  /\ UNCHANGED dl
  /\ UNCHANGED dlAside

DlNext ==
  \/ TokTick
  \/ \E v \in Versions : CreateDownloadToken(v)
  \/ \E c \in Callers, t \in Tokens : DlStart(c, t)
  \/ \E c \in Callers : DlLookup(c)
  \/ \E c \in Callers : DlLookupErr(c)
  \/ \E c \in Callers : DlOpen(c)
  \/ \E c \in Callers : DlOpenErr(c)
  \/ \E c \in Callers : DlFind(c)
  \/ \E c \in Callers : DlUpdate(c)
  \/ \E v \in Versions : Yank(v)
  \/ \E v \in Versions : Unyank(v)

DownloadSpec == Init /\ [][DlNext]_vars

----------------------------------------------------------------------------
(* claim_promo, src/src/sv/license.rs:138-171, called for the "trial" button   *)
(* (src/src/plugins/telegram/callback.rs:280-308).  The call awaits the store  *)
(* four times, each statement on its own: get_or_create of the user, the       *)
(* lookup of the claim record, the insert of the license and the insert of the *)
(* claim record.  The clock's origin in this part is the start of the          *)
(* promotional window.                                                         *)

\* what claim_promo leaves alone
cpAside == <<sessions, pc, req, adm, banned, ext, dbver, writer, download_tokens,
             issued, backup_hash, bk, fb, files, guard, parked, st, builds, dl, made, blob, plug, ck>>

promo_name == "first_promo"
trial_days == 7
promo_start == 0
\* 2025-12-14 18:00:00 to 2025-12-21 23:59:59, in seconds
promo_end == 7 * DaySecs + 21599

PromoTickSteps == {1, promo_end}

\* the store of a fresh deployment: no license yet
InitPromo ==
  /\ clock = 0
  /\ db = EmptyMap
  /\ sessions = EmptyMap
  /\ pc = [p \in Procs |-> "idle"]
  /\ req = [p \in Procs |-> IdleReq]
  /\ out = NoOut
  /\ adm = IdleAdm
  /\ ops = 0
  /\ banned = {}
  /\ ext = [c \in Callers |-> IdleExt]
  /\ dbver = 0
  /\ writer = 0
  /\ download_tokens = EmptyMap
  /\ issued = EmptyMap
  /\ backup_hash = Sentinel
  /\ bk = IdleBk
  /\ fb = [c \in Admins |-> IdleFb]
  /\ files = {}
  /\ guard = [p \in Procs |-> 0]
  /\ parked = {}
  /\ st = IdleSt
  /\ builds = InitBuilds
  /\ dl = [c \in Callers |-> IdleDl]
  /\ promos = {}
  /\ cp = [c \in Callers |-> IdleCp]
  /\ made = EmptyMap
  /\ blob = [p \in Procs |-> None]
  /\ plug = IdlePlug
  /\ ck = IdleCk

is_promo_active(now) == now >= promo_start /\ now <= promo_end

PromoTick ==
  /\ Spend
  /\ \E d \in PromoTickSteps : clock' = clock + d
  /\ UNCHANGED <<db, promos, cp>>
  /\ UNCHANGED cpAside
  /\ Silent

CpRes(c, result) ==
  [NoOut EXCEPT !.kind = "promo", !.proc = c, !.key = cp[c].key, !.result = result,
                !.value = cp[c].tg_user_id]

TrialsOf(table, owner) ==
  {k \in DOMAIN table : table[k].tg_user_id = owner /\ table[k].license_type = "trial"}

\* the window is tested, then the user row is ensured
CpStart(c, owner) ==
  /\ Spend
  /\ cp[c].pc = "idle"
  /\ IF ~is_promo_active(clock)
       THEN /\ out' = [NoOut EXCEPT !.kind = "promo", !.proc = c, !.result = "PromoInactive",
                                    !.value = owner]
            /\ cp' = cp
       ELSE /\ cp' = [cp EXCEPT ![c] = [IdleCp EXCEPT !.pc = "find", !.tg_user_id = owner,
                                                      !.promo_name = promo_name]]
            /\ Silent
  /\ UNCHANGED <<clock, db, promos>>
  /\ UNCHANGED cpAside

\* promo::Entity::find_by_id((tg_user_id, promo_name)) answers
CpFind(c) ==
  /\ cp[c].pc = "find"
  /\ IF <<cp[c].tg_user_id, cp[c].promo_name>> \in promos
       THEN /\ out' = CpRes(c, "PromoClaimed")
            /\ cp' = [cp EXCEPT ![c] = IdleCp]
       ELSE /\ cp' = [cp EXCEPT ![c].pc = "create"]
            /\ Silent
  /\ UNCHANGED <<clock, ops, db, promos>>
  /\ UNCHANGED cpAside

\* self.create(tg_user_id, LicenseType::Trial, 7): the license row is inserted
CpCreate(c) ==
  /\ cp[c].pc = "create"
  /\ Keys \ DOMAIN db # {}
  /\ LET key == FreshKey(db)
     IN  /\ db' = PutKey(db, key, NewLicense(cp[c].tg_user_id, "trial", clock, trial_days, 1))
         /\ cp' = [cp EXCEPT ![c].pc = "insert", ![c].key = key]
  /\ Silent
  /\ UNCHANGED <<clock, ops, promos>>
  /\ UNCHANGED cpAside

\* the insert of the license fails in the store: `?` returns the error
CpCreateErr(c) ==
  /\ cp[c].pc = "create"
  /\ out' = CpRes(c, "Db")
  /\ cp' = [cp EXCEPT ![c] = IdleCp]
  /\ UNCHANGED <<clock, ops, db, promos>>
  /\ UNCHANGED cpAside

\* the claim record is inserted; (tg_user_id, promo_name) is the primary key
CpInsert(c) ==
  /\ cp[c].pc = "insert"
  /\ LET claim == <<cp[c].tg_user_id, cp[c].promo_name>>
     IN  IF claim \in promos
           THEN /\ out' = CpRes(c, "Db")
                /\ promos' = promos
           ELSE /\ out' = CpRes(c, "Ok")
                /\ promos' = promos \cup {claim}
  /\ cp' = [cp EXCEPT ![c] = IdleCp]
  /\ UNCHANGED <<clock, ops, db>>
  /\ UNCHANGED cpAside

\* the insert of the claim record fails in the store: `?` returns the error
CpInsertErr(c) ==
  /\ cp[c].pc = "insert"
  /\ out' = CpRes(c, "Db")
  /\ cp' = [cp EXCEPT ![c] = IdleCp]
  /\ UNCHANGED <<clock, ops, db, promos>>
  /\ UNCHANGED cpAside

PromoNext ==
  \/ PromoTick
  \/ \E c \in Callers, o \in Owners : CpStart(c, o)
  \/ \E c \in Callers : CpFind(c)
  \/ \E c \in Callers : CpCreate(c)
  \/ \E c \in Callers : CpCreateErr(c)
  \/ \E c \in Callers : CpInsert(c)
  \/ \E c \in Callers : CpInsertErr(c)

PromoSpec == InitPromo /\ [][PromoNext]_vars

----------------------------------------------------------------------------
(* License::create and License::validate as the callers of the registry see    *)
(* them, src/src/sv/license.rs:18-41 and 63-76, with set_blocked               *)
(* (src/src/sv/license.rs:101-112).  The key is Uuid::new_v4(): any key may    *)
(* come out, and the primary key of the licenses table refuses one that is     *)
(* taken.                                                                      *)

\* what create, validate and set_blocked leave alone
crAside == <<sessions, pc, req, adm, banned, ext, dbver, writer, download_tokens,
             issued, backup_hash, bk, fb, files, guard, parked, st, builds, dl,
             promos, cp, blob, plug, ck>>

CrOwners == {1, 2}
LicenseTypes == {"trial", "pro"}
CreateDays == {0, 1}
CrTickSteps == {1, DaySecs - 1}

CrTick ==
  /\ Spend
  /\ \E d \in CrTickSteps : clock' = clock + d
  /\ UNCHANGED <<db, made>>
  /\ UNCHANGED crAside
  /\ Silent

\* create(tg_user_id, ty, days), the generated key being `key`
Create(owner, ty, days, key) ==
  /\ Spend
  /\ IF key \in DOMAIN db
       THEN /\ out' = [NoOut EXCEPT !.kind = "create", !.key = key, !.result = "Db",
                                    !.days = days]
            /\ UNCHANGED <<db, made>>
       ELSE LET license == NewLicense(owner, ty, clock, days, 1)
            IN  /\ db' = PutKey(db, key, license)
                /\ made' = PutKey(made, key, license)
                /\ out' = [NoOut EXCEPT !.kind = "create", !.key = key, !.result = "Ok",
                                        !.days = days, !.license = license]
  /\ UNCHANGED clock
  /\ UNCHANGED crAside

\* validate(key): Ok(license), LicenseNotFound or LicenseInvalid
Validate(key) ==
  /\ LET result == validate(db, key, clock)
     IN  out' = [NoOut EXCEPT !.kind = "validate", !.key = key, !.result = result,
                              !.value = clock,
                              !.license = IF result = "Ok" THEN db[key] ELSE NoLicense]
  /\ UNCHANGED <<clock, ops, db, made>>
  /\ UNCHANGED crAside

\* set_blocked(key, blocked)
SetBlocked(key, blocked) ==
  /\ key \in DOMAIN db
  /\ db[key].is_blocked # blocked
  /\ db' = set_blocked(db, key, blocked)
  /\ Silent
  /\ UNCHANGED <<clock, ops, made>>
  /\ UNCHANGED crAside

CrNext ==
  \/ CrTick
  \/ \E o \in CrOwners, ty \in LicenseTypes, d \in CreateDays, k \in Keys : Create(o, ty, d, k)
  \/ \E k \in Keys : Validate(k)
  \/ \E k \in Keys, b \in BOOLEAN : SetBlocked(k, b)

CreateSpec == Init /\ [][CrNext]_vars

----------------------------------------------------------------------------
(* Backups, src/src/state.rs:84-94 and 144-218.  The scheduled task            *)
(* (src/src/main.rs:65-77) runs perform_smart_backup in one loop, one run      *)
(* after the other; the /backup command                                        *)
(* (src/src/plugins/telegram/command.rs:396-401) runs perform_backup in the    *)
(* handler of the chat it came from, and different chats are served            *)
(* concurrently.  A snapshot is a VACUUM INTO <file> statement, which fails    *)
(* when the file already exists.                                               *)

hash_licenses_hwid(table) ==
  [zero |-> FALSE,
   rows |-> [k \in DOMAIN table |->
               <<table[k].tg_user_id, table[k].is_blocked, table[k].expires_at,
                 table[k].max_sessions, table[k].hwid_hash>>]]

\* hash_licenses: a hash of key, tg_user_id, is_blocked, expires_at and
\* max_sessions of every row in key order; it is never 0 and taken as collision free
hash_licenses(table) ==
  [zero |-> FALSE,
   rows |-> [k \in DOMAIN table |->
               <<table[k].tg_user_id, table[k].is_blocked, table[k].expires_at,
                 table[k].max_sessions>>]]

\* format!("backup_{}.db", timestamp), format!("manual_backup_{}.db", timestamp)
BackupFile(prefix, timestamp) == <<prefix, timestamp>>

\* main.rs:72 and state.rs:148-151: the interval fires, the licenses are read
Read ==
  /\ bk.pc = "idle"
  /\ bk' = [bk EXCEPT !.pc = "decide", !.new_hash = hash_licenses(db), !.prev = bk.new_hash,
                      !.licenses = db, !.before = bk.licenses,
                      !.first = IF bk.new_hash = Sentinel THEN db ELSE @]
  /\ UNCHANGED <<backup_hash, fb, files>>
  /\ UNCHANGED bkAside
  /\ Silent

BkRead == Spend /\ Read

NothingNew_never(new_hash, old_hash) == FALSE

\* state.rs:159: no license changes, or first run
NothingNew(new_hash, old_hash) == new_hash = old_hash \/ old_hash = Sentinel

\* state.rs:153-170: store the new fingerprint, then skip or pick the file name
BkDecide ==
  /\ bk.pc = "decide"
  /\ backup_hash' = bk.new_hash
  /\ IF NothingNew(bk.new_hash, backup_hash)
       THEN /\ bk' = [bk EXCEPT !.pc = "idle"]
            /\ UNCHANGED files
       ELSE /\ bk' = [bk EXCEPT !.pc = "vacuum", !.timestamp = clock]
            /\ files' = files \ {BackupFile("backup", clock)}
  /\ UNCHANGED fb
  /\ UNCHANGED <<bkAside, ops>>
  /\ Silent

\* state.rs:172-179: VACUUM INTO has written the file
BkVacuum ==
  /\ bk.pc = "vacuum"
  /\ files' = files \cup {BackupFile("backup", bk.timestamp)}
  /\ bk' = [bk EXCEPT !.pc = "send", !.todo = Admins, !.made = bk.made + 1, !.snap = db]
  /\ out' = [NoOut EXCEPT !.kind = "snapshot", !.proc = 0, !.value = bk.timestamp]
  /\ UNCHANGED <<backup_hash, fb>>
  /\ UNCHANGED <<bkAside, ops>>

\* state.rs:172-179: the VACUUM INTO statement failed, `?` returns the error
\* and main.rs:73-75 logs it
BkVacuumErr ==
  /\ bk.pc = "vacuum"
  /\ bk' = [bk EXCEPT !.pc = "idle"]
  /\ UNCHANGED <<backup_hash, fb, files>>
  /\ UNCHANGED <<bkAside, ops>>
  /\ Silent

\* state.rs:181-194: send_document to one administrator (a failure is ignored)
BkSend(a) ==
  /\ bk.pc = "send"
  /\ a \in bk.todo
  /\ bk' = [bk EXCEPT !.todo = bk.todo \ {a}]
  /\ out' = [NoOut EXCEPT !.kind = "send", !.proc = a, !.value = bk.timestamp,
                          !.result = "backup"]
  /\ UNCHANGED <<backup_hash, fb, files>>
  /\ UNCHANGED <<bkAside, ops>>

\* state.rs:196-197: remove the file, Ok(())
BkRemove ==
  /\ bk.pc = "send"
  /\ bk.todo = {}
  /\ files' = files \ {BackupFile("backup", bk.timestamp)}
  /\ bk' = [bk EXCEPT !.pc = "idle"]
  /\ UNCHANGED <<backup_hash, fb>>
  /\ UNCHANGED <<bkAside, ops>>
  /\ Silent

\* command.rs:396 and state.rs:200-211: /backup from chat c issues VACUUM INTO;
\* when the statement fails, command.rs:398 sends the live licenses.db instead
FbStart(c) ==
  /\ fb[c].pc = "idle"
  /\ Spend
  /\ IF BackupFile("manual_backup", clock) \in files
       THEN /\ out' = [NoOut EXCEPT !.kind = "send", !.proc = c, !.value = clock,
                                    !.result = "licenses.db"]
            /\ UNCHANGED <<fb, files>>
       ELSE /\ fb' = [fb EXCEPT ![c] = [pc |-> "vacuum", timestamp |-> clock]]
            /\ files' = files \cup {BackupFile("manual_backup", clock)}
            /\ Silent
  /\ UNCHANGED <<backup_hash, bk>>
  /\ UNCHANGED bkAside

AfterForced_store(stored, table) == hash_licenses(table)

\* perform_backup has no access to self.backup_hash: the value stays
AfterForced(stored, table) == stored

\* state.rs:205-211: VACUUM INTO completed
FbVacuum(c) ==
  /\ fb[c].pc = "vacuum"
  /\ fb' = [fb EXCEPT ![c].pc = "send"]
  /\ out' = [NoOut EXCEPT !.kind = "snapshot", !.proc = c, !.value = fb[c].timestamp]
  /\ backup_hash' = AfterForced(backup_hash, db)
  /\ UNCHANGED <<bk, files>>
  /\ UNCHANGED <<bkAside, ops>>

\* state.rs:213-217: send the file to the requesting chat, remove it, Ok(())
FbSend(c) ==
  /\ fb[c].pc = "send"
  /\ out' = [NoOut EXCEPT !.kind = "send", !.proc = c, !.value = fb[c].timestamp,
                          !.result = "manual_backup"]
  /\ files' = files \ {BackupFile("manual_backup", fb[c].timestamp)}
  /\ fb' = [fb EXCEPT ![c] = IdleFb]
  /\ UNCHANGED <<backup_hash, bk>>
  /\ UNCHANGED <<bkAside, ops>>

BkNext ==
  \/ Tick
  \/ \E k \in Keys, d \in BuyDays : AdminBuy(k, d)
  \/ BkRead
  \/ BkDecide
  \/ BkVacuum
  \/ \E a \in Admins : BkSend(a)
  \/ BkRemove
  \/ \E c \in Admins : FbStart(c)
  \/ \E c \in Admins : FbVacuum(c)
  \/ \E c \in Admins : FbSend(c)

BackupSpec == Init /\ [][BkNext]_vars

\* The scheduled backup next to everything that changes data between two of
\* its runs: heartbeats (sessions, the hardware binding of a license), download
\* tokens, and the commands that create, extend, block and unblock licenses.
DcNext ==
  \/ \E r \in Requests : HbStart(1, r[1], r[2], r[3])
  \/ HbValidate(1)
  \/ HbValidateDbErr(1)
  \/ HbReject(1)
  \/ HbBind(1)
  \/ HbAdmit(1)
  \/ \E v \in Versions : CreateDownloadToken(v)
  \/ \E o \in Owners, d \in GenDays, m \in CreateMaxSessions : AdminGen(o, d, m)
  \/ \E k \in Keys, d \in BuyDays : AdminBuy(k, d)
  \/ \E k \in Keys : AdminBanSetBlocked(k)
  \/ AdminBanDrop
  \/ \E k \in Keys : AdminUnban(k)
  \/ BkRead
  \/ BkDecide
  \/ BkVacuum
  \/ \E a \in Admins : BkSend(a)
  \/ BkRemove

DecisionSpec == Init /\ [][DcNext]_vars

\* The backup loop of main.rs:65-77 running for ever: the interval keeps
\* firing, a snapshot statement may fail, and licenses are extended a bounded
\* number of times.
SchedTick == Read /\ UNCHANGED ops

SchedNext ==
  \/ \E k \in Keys, d \in BuyDays : AdminBuy(k, d)
  \/ SchedTick
  \/ BkDecide
  \/ BkVacuum
  \/ BkVacuumErr
  \/ \E a \in Admins : BkSend(a)
  \/ BkRemove

\* the interval fires again and again, every await of the task returns, and a
\* snapshot statement that is attempted again and again succeeds at some time
SchedFair ==
  /\ WF_vars(SchedTick)
  /\ WF_vars(BkDecide)
  /\ WF_vars(BkVacuum \/ BkVacuumErr)
  /\ SF_vars(BkVacuum)
  /\ WF_vars(\E a \in Admins : BkSend(a))
  /\ WF_vars(BkRemove)

SchedSpec == Init /\ [][SchedNext]_vars /\ SchedFair

----------------------------------------------------------------------------
(* The plugin supervisor, src/src/plugins/mod.rs:36-72: one task per           *)
(* registered plugin that runs start() in a task of its own, awaits it,        *)
(* sleeps five seconds and starts it again, until the task was cancelled.      *)

\* mod.rs:48: tokio::spawn(async move { plugin.start(app).await })
SupSpawn(p) ==
  /\ plug[p].sup = "spawn"
  /\ plug' = [plug EXCEPT ![p].sup = "await", ![p].running = @ + 1, ![p].joined = None]
  /\ UNCHANGED supAside

\* how an instance ends: start() returns Ok(()) or Err, panics, or its task is
\* cancelled when the runtime shuts down
Exits == {"Ok", "Err", "Panic", "Cancelled"}

PluginExit(p, how) ==
  /\ plug[p].running > 0
  /\ plug' = [plug EXCEPT ![p].running = @ - 1, ![p].joined = how]
  /\ UNCHANGED supAside

AfterJoin_stop(how) == "stopped"

\* mod.rs:50-65: break when the join error is a cancellation, else go on
AfterJoin(how) == IF how = "Cancelled" THEN "stopped" ELSE "sleep"

\* mod.rs:50-67: handle.await returned and was matched
SupJoin(p) ==
  /\ plug[p].sup = "await"
  /\ plug[p].joined # None
  /\ plug' = [plug EXCEPT ![p].sup = AfterJoin(plug[p].joined),
                          ![p].left = IF AfterJoin(plug[p].joined) = "sleep"
                                        THEN restart_delay ELSE 0,
                          ![p].last = plug[p].joined,
                          ![p].joined = None]
  /\ UNCHANGED supAside

\* a second passes for every sleeping supervisor
Second ==
  /\ \E p \in Plugins : plug[p].sup = "sleep" /\ plug[p].left > 0
  /\ plug' = [p \in Plugins |->
                IF plug[p].sup = "sleep" /\ plug[p].left > 0
                  THEN [plug[p] EXCEPT !.left = @ - 1]
                  ELSE plug[p]]
  /\ UNCHANGED supAside

\* mod.rs:67-68: the sleep is over, the loop starts again
SupWake(p) ==
  /\ plug[p].sup = "sleep"
  /\ plug[p].left = 0
  /\ plug' = [plug EXCEPT ![p].sup = "spawn"]
  /\ UNCHANGED supAside

SupNext ==
  \/ \E p \in Plugins : SupSpawn(p)
  \/ \E p \in Plugins, how \in Exits : PluginExit(p, how)
  \/ \E p \in Plugins : SupJoin(p)
  \/ Second
  \/ \E p \in Plugins : SupWake(p)

\* the runtime keeps polling the supervisor tasks and time passes
SupFair ==
  /\ WF_vars(Second)
  /\ \A p \in Plugins : WF_vars(SupSpawn(p)) /\ WF_vars(SupJoin(p)) /\ WF_vars(SupWake(p))

SupervisorSpec == Init /\ [][SupNext]_vars /\ SupFair

----------------------------------------------------------------------------
(* The chat commands, src/src/bot.rs:208-328 and 372-380 (handle_command) and  *)
(* src/src/plugins/telegram/command.rs:93-133 and 351-401.  The sender is the  *)
(* chat the message came from (msg.chat.id.0); every administrative command    *)
(* tests it against the configured set before it does anything.                *)

\* chats that send commands: the two administrators and one other user
Chats == Admins \cup {3}

Allowed_gen(chat, name) == chat \in Admins \/ name = "gen"

\* app.admins.contains(&user_id), tested by the command called name
Allowed(chat, name) == chat \in Admins

\* if !is_admin { return Ok(()); }
Ignored(chat, name, k) ==
  /\ Spend
  /\ out' = [NoOut EXCEPT !.kind = "ignored", !.proc = chat, !.result = name, !.key = k]
  /\ UNCHANGED <<clock, db, sessions, pc, req, adm, banned>>
  /\ UNCHANGED aside

CmdGen(chat, owner, days, maxs) ==
  IF Allowed(chat, "gen") THEN AdminGen(owner, days, maxs) ELSE Ignored(chat, "gen", None)

CmdBuy(chat, k, days) ==
  IF Allowed(chat, "buy") THEN AdminBuy(k, days) ELSE Ignored(chat, "buy", k)

CmdBan(chat, k) ==
  IF Allowed(chat, "ban") THEN AdminBanSetBlocked(k) ELSE Ignored(chat, "ban", k)

CmdUnban(chat, k) ==
  IF Allowed(chat, "unban") THEN AdminUnban(k) ELSE Ignored(chat, "unban", k)

CmdBackup(chat) ==
  IF Allowed(chat, "backup") THEN FbStart(chat) ELSE Ignored(chat, "backup", None)

\* bot.rs:243-245: /freeweek claims the promotion for the sender, whoever it is
CmdFreeWeek(chat) == \E c \in Callers : CpStart(c, chat)

CmdNext ==
  \/ \E c \in Chats, o \in Owners, d \in GenDays, m \in CreateMaxSessions : CmdGen(c, o, d, m)
  \/ \E c \in Chats, k \in Keys, d \in BuyDays : CmdBuy(c, k, d)
  \/ \E c \in Chats, k \in Keys : CmdBan(c, k)
  \/ AdminBanDrop
  \/ \E c \in Chats, k \in Keys : CmdUnban(c, k)
  \/ \E c \in Chats : CmdBackup(c)
  \/ \E c \in Admins : FbVacuum(c)
  \/ \E c \in Admins : FbSend(c)
  \/ \E c \in Chats : CmdFreeWeek(c)
  \/ \E c \in Callers : CpFind(c)
  \/ \E c \in Callers : CpCreate(c)
  \/ \E c \in Callers : CpCreateErr(c)
  \/ \E c \in Callers : CpInsert(c)
  \/ \E c \in Callers : CpInsertErr(c)

CommandSpec == Init /\ [][CmdNext]_vars

----------------------------------------------------------------------------
(* chunk_message, src/src/utils.rs:20-69, and its caller reply_html_chunked,   *)
(* src/src/plugins/telegram/mod.rs:103-124.  A text is a sequence of bytes.    *)

TELEGRAM_MAX_MESSAGE_LENGTH == 4000

MaxText == 4
MaxLens == 0..3
Bytes == {"a", "b", "\n"}
Texts == UNION {[1..n -> Bytes] : n \in 0..MaxText}

\* a text longer than the default limit that consists of line ends only
BlankPage == [i \in 1..(TELEGRAM_MAX_MESSAGE_LENGTH + 1) |-> "\n"]

\* the pieces between the line ends of t[lo..hi], computed by halves
RECURSIVE SplitNL(_, _, _)
SplitNL(t, lo, hi) ==
  IF lo > hi THEN << <<>> >>
  ELSE IF lo = hi THEN (IF t[lo] = "\n" THEN << <<>>, <<>> >> ELSE << <<t[lo]>> >>)
  ELSE LET mid == (lo + hi) \div 2
           l == SplitNL(t, lo, mid)
           r == SplitNL(t, mid + 1, hi)
       IN  SubSeq(l, 1, Len(l) - 1) \o << l[Len(l)] \o r[1] >> \o Tail(r)

\* str::lines: a line end at the very end opens no further line
lines(t) ==
  LET s == SplitNL(t, 1, Len(t))
  IN  IF s[Len(s)] = <<>> THEN SubSeq(s, 1, Len(s) - 1) ELSE s

\* utils.rs:48-52: while remaining.len() > max_len, push the first max_len bytes
RECURSIVE SplitLong(_, _, _)
SplitLong(chunks, remaining, max_len) ==
  IF Len(remaining) > max_len
    THEN SplitLong(Append(chunks, SubSeq(remaining, 1, max_len)),
                   SubSeq(remaining, max_len + 1, Len(remaining)), max_len)
    ELSE [chunks |-> chunks, current |-> remaining]

\* utils.rs:34-61: the body of the loop over the lines
EachLine(acc, line, max_len) ==
  LET a == IF acc.current # <<>> /\ Len(acc.current) + Len(line) + 1 > max_len
             THEN [chunks |-> Append(acc.chunks, acc.current), current |-> <<>>]
             ELSE acc
  IN  IF Len(line) > max_len
        THEN SplitLong(IF a.current # <<>> THEN Append(a.chunks, a.current) ELSE a.chunks,
                       line, max_len)
        ELSE [chunks |-> a.chunks,
              current |-> (IF a.current # <<>> THEN a.current \o <<"\n">> ELSE a.current)
                            \o line]

\* utils.rs:33: for line in text.lines(), here lines lo..hi in their order
RECURSIVE ForLines(_, _, _, _, _)
ForLines(acc, ls, lo, hi, max_len) ==
  IF lo > hi THEN acc
  ELSE IF lo = hi THEN EachLine(acc, ls[lo], max_len)
  ELSE LET mid == (lo + hi) \div 2
           half == ForLines(acc, ls, lo, mid, max_len)
       IN  \* the test makes the first half's result a value before the second half starts
           IF Len(half.chunks) >= 0
             THEN ForLines(half, ls, mid + 1, hi, max_len)
             ELSE half

chunk_message(text, max_len) ==
  LET limit == IF max_len = 0 THEN TELEGRAM_MAX_MESSAGE_LENGTH ELSE max_len
  IN  IF Len(text) <= limit THEN <<text>>
      ELSE LET ls == lines(text)
               acc == ForLines([chunks |-> <<>>, current |-> <<>>], ls, 1, Len(ls), limit)
           IN  IF acc.current # <<>> THEN Append(acc.chunks, acc.current) ELSE acc.chunks

\* a caller splits text at max_len
ChunkMessage(text, max_len) ==
  /\ ck.pc = "idle"
  /\ ck' = [IdleCk EXCEPT !.pc = "chunked", !.text = text, !.max_len = max_len,
                          !.chunks = chunk_message(text, max_len)]
  /\ UNCHANGED ckAside

\* mod.rs:107-109: reply_html_chunked(text) splits at the default limit
ReplyStart(text) ==
  /\ ck.pc = "idle"
  /\ LET chunks == chunk_message(text, 0)
     IN  ck' = [IdleCk EXCEPT !.pc = "sending", !.text = text, !.max_len = 0,
                             !.chunks = chunks, !.todo = chunks]
  /\ UNCHANGED ckAside

\* mod.rs:111-118: the next chunk was sent
ReplySend ==
  /\ ck.pc = "sending"
  /\ ck.todo # <<>>
  /\ ck' = [ck EXCEPT !.todo = Tail(ck.todo), !.last_msg = Head(ck.todo), !.sent = @ + 1]
  /\ UNCHANGED ckAside

\* mod.rs:117: send_message failed, `?` returns the error
ReplySendErr ==
  /\ ck.pc = "sending"
  /\ ck.todo # <<>>
  /\ ck' = [ck EXCEPT !.pc = "returned", !.result = "Err"]
  /\ UNCHANGED ckAside

\* mod.rs:122: Ok(last_msg.unwrap())
ReplyReturn ==
  /\ ck.pc = "sending"
  /\ ck.todo = <<>>
  /\ ck' = [ck EXCEPT !.pc = "returned", !.result = IF ck.sent = 0 THEN "Panic" ELSE "Ok"]
  /\ UNCHANGED ckAside

ChunkNext ==
  \/ \E t \in Texts, n \in MaxLens : ChunkMessage(t, n)
  \/ \E t \in Texts \cup {BlankPage} : ReplyStart(t)
  \/ ReplySend
  \/ ReplySendErr
  \/ ReplyReturn

ChunkSpec == Init /\ [][ChunkNext]_vars

\* VACUUM INTO statements that are running
Snapshotting == (IF bk.pc = "vacuum" THEN {0} ELSE {}) \cup {c \in Admins : fb[c].pc = "vacuum"}

----------------------------------------------------------------------------
(* The heartbeat of src/src/handlers.rs with the locks of the session map.     *)
(* DashMap locks per shard: get_mut, entry, remove and retain take the write   *)
(* lock of the key's shard and wait while another task holds it.  The guard    *)
(* returned by entry() (line 120) lives to the end of the function, so a       *)
(* request that carries stats keeps it across the await of                     *)
(* update_from_telemetry (lines 147-155).  The guards of get_mut (line 74) and *)
(* of remove (state.rs:231) are gone before the next await.                    *)

\* the keys of the model stand for two keys of one shard
ShardOf(k) == 1

\* no other request holds the shard of k
LkFree(p, k) == \A q \in Procs \ {p} : guard[q] # ShardOf(k)

\* lines 70-79, once the shard's lock is granted
LkStart(p, k, sid, mid) ==
  /\ LkFree(p, k)
  /\ HbStart(p, k, sid, mid)

\* lines 84-97, once the shard's lock is granted
LkReject(p) ==
  /\ pc[p] \in {"drop401", "drop403"}
  /\ LkFree(p, req[p].key)
  /\ HbReject(p)

\* lines 119-157 for a request without stats, once the shard's lock is granted
LkAdmit(p) ==
  /\ pc[p] = "admit"
  /\ LkFree(p, req[p].key)
  /\ HbAdmit(p)

active_before(entry) == Len(entry) - 1

\* line 149: entry.len() as i32, after the push
active(entry) == Len(entry)

\* lines 119-152 for a request with stats: push, then call update_from_telemetry(db,
\* license.tg_user_id, stats, active) and await it, guard held
AdmitStats(p) ==
  /\ pc[p] = "admit"
  /\ LET k == req[p].key
         entry == Retain(SessionsOf(sessions, k), req[p].now, session_lifetime)
     IN  /\ ~LimitReached(Len(entry), req[p].license.max_sessions)
         /\ sessions' = PutKey(sessions, k,
                Append(entry, NewSession(req[p].session_id, req[p].machine_id, req[p].now)))
         /\ guard' = [guard EXCEPT ![p] = ShardOf(k)]
         /\ out' = [NoOut EXCEPT !.kind = "telemetry", !.proc = p, !.key = k,
                                 !.value = req[p].license.tg_user_id,
                                 !.current = active(sessions'[k])]
  /\ pc' = [pc EXCEPT ![p] = "telemetry"]
  /\ UNCHANGED <<clock, ops, db, req, adm, banned>>

LkAdmitStats(p) ==
  /\ pc[p] = "admit"
  /\ LkFree(p, req[p].key)
  /\ AdmitStats(p)
  /\ UNCHANGED lkAside

TelemetryStatus_strict(telemetry) == IF telemetry = "Ok" THEN 200 ELSE 500

\* lines 146-157: whatever became of the stats, the function ends with (OK, ok(magic))
TelemetryStatus(telemetry) == 200

\* the answer of a request that carried stats; result: what became of them
RespondStats(p, r, telemetry) ==
  /\ out' = [Response(p, r, TelemetryStatus(telemetry), "slow", 0, 0)
               EXCEPT !.result = telemetry]
  /\ pc' = [pc EXCEPT ![p] = "idle"]
  /\ req' = [req EXCEPT ![p] = IdleReq]

\* lines 119-157 for a request whose stats fail base64_decode or decompress_stats:
\* push, no await, 200
LkAdmitBadStats(p) ==
  /\ pc[p] = "admit"
  /\ LkFree(p, req[p].key)
  /\ LET k == req[p].key
         entry == Retain(SessionsOf(sessions, k), req[p].now, session_lifetime)
     IN  /\ ~LimitReached(Len(entry), req[p].license.max_sessions)
         /\ sessions' = PutKey(sessions, k,
                Append(entry, NewSession(req[p].session_id, req[p].machine_id, req[p].now)))
  /\ RespondStats(p, req[p], "Undecodable")
  /\ UNCHANGED <<clock, ops, db, adm, banned>>
  /\ UNCHANGED aside

\* lines 150-158: update_from_telemetry returned Ok or Err, the result is
\* discarded; 200, the guard is dropped
LkTelemetry(p, telemetry) ==
  /\ pc[p] = "telemetry"
  /\ RespondStats(p, req[p], telemetry)
  /\ guard' = [guard EXCEPT ![p] = 0]
  /\ UNCHANGED <<clock, ops, db, sessions, adm, banned>>
  /\ UNCHANGED lkAside

\* main.rs:88: retain() takes every shard's lock in turn
LkGcSessions ==
  /\ \A q \in Procs : guard[q] = 0
  /\ GcSessions

LkNext ==
  \/ Tick
  \/ \E p \in Procs, r \in Requests : LkStart(p, r[1], r[2], r[3])
  \/ \E p \in Procs : HbValidate(p)
  \/ \E p \in Procs : HbValidateDbErr(p)
  \/ \E p \in Procs : LkReject(p)
  \/ \E p \in Procs : HbBind(p)
  \/ \E p \in Procs : LkAdmit(p)
  \/ \E p \in Procs : LkAdmitStats(p)
  \/ \E p \in Procs : LkAdmitBadStats(p)
  \/ \E p \in Procs, t \in {"Ok", "Err"} : LkTelemetry(p, t)
  \/ LkGcSessions

LockSpec == Init /\ [][LkNext]_vars

----------------------------------------------------------------------------
(* The heartbeat with the stats field of its body, src/src/handlers.rs:16-24   *)
(* and 146-155: the blob is absent, decodable or not decodable, and is looked  *)
(* at only after the session was pushed.                                       *)

\* what the arrival of a heartbeat leaves alone besides the heartbeat's own variables
tmAside == <<ext, dbver, writer, download_tokens, issued, backup_hash, bk, fb, files, st,
             builds, dl, promos, cp, made, parked, guard, plug, ck>>

Blobs == {None, "valid", "undecodable"}

\* lines 66-79 for a body with the stats field `b`
TmStart(p, k, sid, mid, b) ==
  /\ LkFree(p, k)
  /\ Start(p, k, sid, mid)
  /\ blob' = [blob EXCEPT ![p] = b]
  /\ UNCHANGED tmAside

\* `if let Some(stats_b64) = req.stats` fails
TmAdmit(p) == blob[p] = None /\ LkAdmit(p)

\* both decoders succeed
TmAdmitStats(p) == blob[p] = "valid" /\ LkAdmitStats(p)

\* base64_decode or decompress_stats fails
TmAdmitBadStats(p) == blob[p] = "undecodable" /\ LkAdmitBadStats(p)

TmNext ==
  \/ Tick
  \/ \E p \in Procs, r \in Requests, b \in Blobs : TmStart(p, r[1], r[2], r[3], b)
  \/ \E p \in Procs : HbValidate(p)
  \/ \E p \in Procs : HbValidateDbErr(p)
  \/ \E p \in Procs : LkReject(p)
  \/ \E p \in Procs : HbBind(p)
  \/ \E p \in Procs : TmAdmit(p)
  \/ \E p \in Procs : TmAdmitStats(p)
  \/ \E p \in Procs : TmAdmitBadStats(p)
  \/ \E p \in Procs, t \in {"Ok", "Err"} : LkTelemetry(p, t)
  \/ LkGcSessions

TelemetrySpec == Init /\ [][TmNext]_vars

\* request p is waiting for an answer of the durable store
WaitsOnStore(p) == pc[p] \in {"validate", "bind", "telemetry"}

\* request q has its answer from the store and needs the lock that p holds
BlockedBy(q, p) ==
  /\ q # p
  /\ pc[q] \in {"drop401", "drop403", "admit"}
  /\ guard[p] = ShardOf(req[q].key)

----------------------------------------------------------------------------
(* Stats submission, src/src/handlers.rs:201-276, next to the heartbeats, the   *)
(* evictor and the /ban command.                                                *)

\* StatsReq::data: base64 of gzip of JSON, or something that is not
StatsData == {"valid", "not_base64", "not_gzip_json"}

\* the answer of the stats endpoint; the submission is over
StatsRes(status, message) ==
  /\ out' = [NoOut EXCEPT !.kind = "stats", !.key = st.key, !.session_id = st.session_id,
                          !.status = status, !.result = message]
  /\ st' = IdleSt

\* the request arrives; LicenseService::validate is awaited
StStart(k, sid, data) ==
  /\ st.pc = "idle"
  /\ Spend
  /\ st' = [pc |-> "validate", key |-> k, session_id |-> sid, data |-> data]
  /\ UNCHANGED stAside
  /\ Silent

SessionValid_anyid(store, k, sid) == SessionsOf(store, k) # <<>>

\* lines 219-223: sessions.get(key) has a session with that id
SessionValid(store, k, sid) ==
  \E i \in 1..Len(SessionsOf(store, k)) : SessionsOf(store, k)[i].session_id = sid

\* lines 206-273, up to the await of update_from_telemetry
StCheck ==
  /\ st.pc = "validate"
  /\ IF validate(db, st.key, clock) # "Ok"
       THEN StatsRes(401, "Invalid license")
       ELSE IF ~SessionValid(sessions, st.key, st.session_id)
         THEN StatsRes(401, "Invalid session")
         ELSE IF st.data = "not_base64"
           THEN StatsRes(400, "Invalid base64 encoding")
           ELSE IF st.data = "not_gzip_json"
             THEN StatsRes(400, "Invalid stats data")
             ELSE /\ st' = [st EXCEPT !.pc = "update"]
                  /\ Silent
  /\ UNCHANGED ops
  /\ UNCHANGED stAside

\* lines 206-216: validate failed in the store: Err(_) is answered 401 as well
StCheckDbErr ==
  /\ st.pc = "validate"
  /\ StatsRes(401, "Invalid license")
  /\ UNCHANGED ops
  /\ UNCHANGED stAside

\* lines 241-253: update_from_telemetry returned (an Err is logged); 200
StUpdate ==
  /\ st.pc = "update"
  /\ StatsRes(200, None)
  /\ UNCHANGED ops
  /\ UNCHANGED stAside

StNext ==
  \/ Tick
  \/ \E p \in Procs, r \in Requests : HbStart(p, r[1], r[2], r[3])
  \/ \E p \in Procs : HbValidate(p)
  \/ \E p \in Procs : HbValidateDbErr(p)
  \/ \E p \in Procs : HbReject(p)
  \/ \E p \in Procs : HbBind(p)
  \/ \E p \in Procs : HbAdmit(p)
  \/ GcSessions
  \/ \E k \in Keys : AdminBanSetBlocked(k)
  \/ AdminBanDrop
  \/ \E k \in Keys, sid \in SessionIds, data \in StatsData : StStart(k, sid, data)
  \/ StCheck
  \/ StCheckDbErr
  \/ StUpdate

StatsSpec == Init /\ [][StNext]_vars

----------------------------------------------------------------------------
(* The same heartbeat on the runtime of src/src/main.rs:32 (#[tokio::main]): a  *)
(* pool of worker threads runs the tasks, each from one await to the next.      *)
(* The locks of the session map are not async: a task that finds its shard      *)
(* locked blocks the worker thread it runs on until the lock is released, and   *)
(* a task suspended at an await is resumed only when a worker is free to poll   *)
(* it.  The tasks are the heartbeat requests, the evictor (main.rs:83-90) and   *)
(* the /ban command, which run on the same runtime (main.rs:58-60).             *)

Hb(p) == <<"hb", p>>

\* the evictor, with the time it read before retain (state.rs:221)
Gc(now) == <<"gc", now>>

AdmTask == <<"adm", 0>>

GcParked == \E t \in parked : t[1] = "gc"

FreeWorker == Cardinality(parked) < Workers

\* task t runs its next stretch: on the worker it blocks, or on a free one
Runs(t) ==
  /\ t \in parked \/ FreeWorker
  /\ parked' = parked \ {t}

ShardLocked(k) == \E q \in Procs : guard[q] = ShardOf(k)

\* lines 70-79 on a free worker with the shard unlocked
PlStart(p, k, sid, mid) == FreeWorker /\ LkStart(p, k, sid, mid)

\* lines 70-73: the clock is read, get_mut finds the shard locked and blocks
PlArrive(p, k, sid, mid) ==
  /\ FreeSlot(p)
  /\ Spend
  /\ FreeWorker
  /\ ShardLocked(k)
  /\ pc' = [pc EXCEPT ![p] = "start"]
  /\ req' = [req EXCEPT ![p] = Request(k, sid, mid, clock)]
  /\ parked' = parked \cup {Hb(p)}
  /\ UNCHANGED <<clock, db, sessions, adm, banned, guard, plAside>>
  /\ Silent

\* lines 73-79 once get_mut is granted
PlLookup(p) ==
  /\ pc[p] = "start"
  /\ LkFree(p, req[p].key)
  /\ Runs(Hb(p))
  /\ LET r == req[p]
     IN  IF FastPathHit(sessions, r.key, r.session_id, r.machine_id)
           THEN /\ sessions' = [sessions EXCEPT
                                  ![r.key] = Refresh(sessions[r.key], r.session_id, r.machine_id, r.now)]
                /\ Respond(p, r, 200, "fast", 0, 0)
           ELSE /\ pc' = [pc EXCEPT ![p] = "validate"]
                /\ UNCHANGED <<sessions, req>>
                /\ Silent
  /\ UNCHANGED <<clock, ops, db, adm, banned, guard, plAside>>

\* a free worker polls the request after validate, bind_hwid or
\* update_from_telemetry returned
PlPoll(p) ==
  /\ FreeWorker
  /\ \/ HbValidate(p)
     \/ HbValidateDbErr(p)
     \/ HbBind(p)
     \/ \E t \in {"Ok", "Err"} : LkTelemetry(p, t)

\* state.rs:231 (remove) and handlers.rs:120 (entry) find the shard locked and block
PlPark(p) ==
  /\ pc[p] \in {"drop401", "drop403", "admit"}
  /\ Hb(p) \notin parked
  /\ ~LkFree(p, req[p].key)
  /\ FreeWorker
  /\ parked' = parked \cup {Hb(p)}
  /\ UNCHANGED <<clock, ops, db, sessions, pc, req, adm, banned, guard, plAside>>
  /\ Silent

PlReject(p) ==
  /\ pc[p] \in {"drop401", "drop403"}
  /\ LkFree(p, req[p].key)
  /\ Runs(Hb(p))
  /\ Reject(p)
  /\ UNCHANGED <<guard, plAside>>

PlAdmit(p) ==
  /\ pc[p] = "admit"
  /\ LkFree(p, req[p].key)
  /\ Runs(Hb(p))
  /\ Admit(p)
  /\ UNCHANGED <<guard, plAside>>

PlAdmitStats(p) ==
  /\ pc[p] = "admit"
  /\ LkFree(p, req[p].key)
  /\ Runs(Hb(p))
  /\ AdmitStats(p)
  /\ UNCHANGED plAside

\* main.rs:87-88: the interval fires, retain() finds a shard locked and blocks
PlGcPark ==
  /\ ~GcParked
  /\ \E q \in Procs : guard[q] # 0
  /\ FreeWorker
  /\ parked' = parked \cup {Gc(clock)}
  /\ UNCHANGED <<clock, ops, db, sessions, pc, req, adm, banned, guard, plAside>>
  /\ Silent

\* state.rs:224-227 with every shard unlocked
PlGc(now) ==
  /\ \A q \in Procs : guard[q] = 0
  /\ IF GcParked THEN Gc(now) \in parked ELSE now = clock
  /\ Runs(Gc(now))
  /\ Evict(now)
  /\ sessions' # sessions \/ GcParked
  /\ UNCHANGED <<guard, plAside>>

PlBanSetBlocked(k) == FreeWorker /\ AdminBanSetBlocked(k)

\* state.rs:231: remove() of the /ban command finds the shard locked and blocks
PlBanPark ==
  /\ adm.op = "ban_drop"
  /\ AdmTask \notin parked
  /\ ShardLocked(adm.key)
  /\ FreeWorker
  /\ parked' = parked \cup {AdmTask}
  /\ UNCHANGED <<clock, ops, db, sessions, pc, req, adm, banned, guard, plAside>>
  /\ Silent

PlBanDrop ==
  /\ adm.op = "ban_drop"
  /\ ~ShardLocked(adm.key)
  /\ Runs(AdmTask)
  /\ BanDrop
  /\ UNCHANGED <<guard, plAside>>

\* a step of a heartbeat request that is in flight
HbStep ==
  \E p \in Procs :
    \/ PlLookup(p)
    \/ PlPoll(p)
    \/ PlPark(p)
    \/ PlReject(p)
    \/ PlAdmit(p)
    \/ PlAdmitStats(p)

PlNext ==
  \/ Tick
  \/ \E p \in Procs, r \in Requests : PlStart(p, r[1], r[2], r[3])
  \/ \E p \in Procs, r \in Requests : PlArrive(p, r[1], r[2], r[3])
  \/ HbStep
  \/ PlGcPark
  \/ \E now \in 0..clock : PlGc(now)
  \/ \E k \in Keys : PlBanSetBlocked(k)
  \/ PlBanPark
  \/ PlBanDrop

PoolSpec == Init /\ [][PlNext]_vars

----------------------------------------------------------------------------
(* Vocabulary of the properties *)

\* request slot p answers in this step
Answers(p) == out'.kind = "heartbeat" /\ out'.proc = p

\* request slot p takes a request (k, sid, mid) in this step
Starts(p, k, sid, mid) ==
  /\ pc[p] = "idle"
  /\ ops' = ops + 1
  /\ \/ pc'[p] = "validate" /\ req'[p] = Request(k, sid, mid, clock)
     \/ /\ Answers(p)
        /\ out'.key = k /\ out'.session_id = sid /\ out'.machine_id = mid

\* sessions of a list that a request started at `now` still counts as live
LiveCount(seq, now) ==
  Cardinality({i \in 1..Len(seq) : now - seq[i].last_seen < session_lifetime})

NoSessions(store, k) == k \notin DOMAIN store \/ store[k] = <<>>

----------------------------------------------------------------------------
\* C1: the number of sessions stored under a key never exceeds the key's
\* max_sessions after any step; the admission step answers 200 or 409, answers
\* 409 exactly when the live sessions are at or above the cap, then reports
\* current/max and adds no session.
C1_SessionLimit ==
  [][ /\ \A k \in DOMAIN sessions' :
           k \in DOMAIN db' /\ Len(sessions'[k]) <= db'[k].max_sessions
      /\ \A p \in Procs :
           (pc[p] = "admit" /\ Answers(p)) =>
             LET k == req[p].key
                 live == LiveCount(SessionsOf(sessions, k), req[p].now)
             IN  /\ out'.status \in {200, 409}
                 /\ out'.status = 409 <=> live >= db[k].max_sessions
                 /\ out'.status = 409 =>
                      /\ Range(SessionsOf(sessions', k)) \subseteq Range(SessionsOf(sessions, k))
                      /\ Len(SessionsOf(sessions', k)) <= Len(SessionsOf(sessions, k))
                      /\ out'.current = Len(SessionsOf(sessions', k))
                      /\ out'.max = db[k].max_sessions
                 /\ out'.status = 200 =>
                      Len(SessionsOf(sessions', k)) = live + 1
    ]_vars

\* max_sessions = 1, one session stored, a second session id was answered 409 (1/1)
C1_Witness ==
  /\ out.kind = "heartbeat" /\ out.status = 409
  /\ out.current = 1 /\ out.max = 1
  /\ out.key \in DOMAIN sessions /\ Len(sessions[out.key]) = 1
  /\ sessions[out.key][1].session_id # out.session_id

\* C2 (as claimed): a key whose ban has completed and that is still blocked has
\* no session in the store.
C2_BannedKeyHasNoSession ==
  \A k \in banned : db[k].is_blocked => NoSessions(sessions, k)

\* C3 (as claimed): every successful heartbeat comes out of a request whose
\* validate succeeded, for a license that is neither blocked nor expired.
C3_SuccessOnlyAfterValidate ==
  [][ \A p \in Procs :
        (Answers(p) /\ out'.status = 200) =>
          /\ pc[p] = "admit" /\ req[p].license # NoLicense
          /\ out'.key \in DOMAIN db
    ]_vars

\* C3 (amended): a heartbeat succeeds only on the slow path, after validate
\* returned the license row to this request (so the license was not expired
\* when the request started), or on the fast path, where a session with its
\* session id is already stored under the key and validate is not called.
C3_SuccessGate ==
  [][ \A p \in Procs :
        (Answers(p) /\ out'.status = 200) =>
          \/ /\ out'.path = "slow"
             /\ pc[p] = "admit" /\ req[p].license # NoLicense
             /\ out'.key \in DOMAIN db
             /\ db[out'.key].expires_at >= req[p].now
          \/ /\ out'.path = "fast"
             /\ pc[p] = "idle"
             /\ HasSession(sessions, out'.key, out'.session_id)
    ]_vars

\* a fast-path success for a license that has expired
C3_Witness ==
  /\ out.kind = "heartbeat" /\ out.status = 200 /\ out.path = "fast"
  /\ out.key \in DOMAIN db
  /\ db[out.key].expires_at < clock

\* C4 (as claimed): validate succeeds iff the row exists, is not blocked and
\* expires_at is strictly greater than now.
C4_ValidateStrict ==
  [][ \A p \in Procs :
        (pc[p] = "validate" /\ pc'[p] # "validate" /\ ~(Answers(p) /\ out'.status = 500)) =>
          LET k == req[p].key
              succeeded == pc'[p] \in {"bind", "admit"} \/ (Answers(p) /\ out'.path = "hwid")
          IN  succeeded <=>
                /\ k \in DOMAIN db
                /\ ~db[k].is_blocked
                /\ db[k].expires_at > clock
    ]_vars

\* C5 (as claimed): a bound hardware fingerprint never changes.
C5_HwidSetOnce ==
  [][ \A k \in DOMAIN db :
        db[k].hwid_hash # None => db'[k].hwid_hash = db[k].hwid_hash
    ]_vars

\* C6 (as claimed): a heartbeat whose machine_id differs from the fingerprint
\* bound to its license is answered 403, whatever the session store holds.
C6_MismatchAlwaysRejected ==
  [][ \A p \in Procs, k \in DOMAIN db, sid \in SessionIds, mid \in MachineIds :
        ( /\ Starts(p, k, sid, mid)
          /\ db[k].hwid_hash \notin {None, mid} ) =>
          IF Answers(p) THEN out'.status = 403 ELSE pc'[p] = "validate"
    ]_vars

\* C6 (amended): when validate returns a row whose bound fingerprint differs
\* from the request's machine_id, the heartbeat is answered 403 (HWID mismatch)
\* at once and changes neither the session store nor the license row.
C6_MismatchRejectedOnSlowPath ==
  [][ \A p \in Procs :
        ( /\ pc[p] = "validate" /\ pc'[p] # "validate"
          /\ ~(Answers(p) /\ out'.status = 500)
          /\ req[p].key \in DOMAIN db
          /\ ~db[req[p].key].is_blocked
          /\ db[req[p].key].expires_at >= clock
          /\ db[req[p].key].hwid_hash \notin {None, req[p].machine_id} ) =>
          /\ Answers(p)
          /\ out'.status = 403 /\ out'.path = "hwid"
          /\ sessions' = sessions /\ db' = db
    ]_vars

\* a heartbeat from another machine than the bound one was answered 403
C6_Witness ==
  /\ out.kind = "heartbeat" /\ out.status = 403 /\ out.path = "hwid"
  /\ db[out.key].hwid_hash \notin {None, out.machine_id}

\* C7: a request whose session id is already stored under its key is answered
\* 200 in the step that takes it, without a validate step, without touching
\* the license table and whatever its machine_id is.
C7_FastPath ==
  [][ \A p \in Procs, k \in Keys, sid \in SessionIds, mid \in MachineIds :
        (Starts(p, k, sid, mid) /\ HasSession(sessions, k, sid)) =>
          /\ Answers(p)
          /\ out'.status = 200 /\ out'.path = "fast"
          /\ pc'[p] = "idle"
          /\ db' = db
    ]_vars

\* a fast-path success from a machine other than the one that created the session
C7_Witness ==
  /\ out.kind = "heartbeat" /\ out.status = 200 /\ out.path = "fast"
  /\ \E s \in Range(SessionsOf(sessions, out.key)) :
       s.session_id = out.session_id /\ s.hwid_hash # out.machine_id

\* C8: a fast-path refresh leaves the license table, the set of keys, every
\* other key's list, the length of the key's list and every session's id and
\* fingerprint unchanged; only one session with the request's id gets
\* last_seen = now.
C8_FastPathFrame ==
  [][ \A p \in Procs :
        (Answers(p) /\ out'.path = "fast") =>
          LET k == out'.key
          IN  /\ db' = db
              /\ DOMAIN sessions' = DOMAIN sessions
              /\ \A x \in DOMAIN sessions : x # k => sessions'[x] = sessions[x]
              /\ Len(sessions'[k]) = Len(sessions[k])
              /\ \A i \in 1..Len(sessions[k]) :
                   /\ sessions'[k][i].session_id = sessions[k][i].session_id
                   /\ sessions'[k][i].hwid_hash = sessions[k][i].hwid_hash
                   /\ sessions'[k][i].last_seen # sessions[k][i].last_seen =>
                        /\ sessions[k][i].session_id = out'.session_id
                        /\ sessions'[k][i].last_seen = clock
              /\ Cardinality({i \in 1..Len(sessions[k]) :
                                sessions'[k][i] # sessions[k][i]}) <= 1
              /\ \E i \in 1..Len(sessions[k]) :
                   sessions'[k][i].session_id = out'.session_id
                     /\ sessions'[k][i].last_seen = clock
    ]_vars

\* a refresh sent from another machine while a second session is stored
C8_Witness ==
  /\ out.kind = "heartbeat" /\ out.path = "fast"
  /\ \E s \in Range(sessions[out.key]) :
       s.session_id = out.session_id /\ s.last_seen = clock /\ s.hwid_hash # out.machine_id
  /\ \/ Len(sessions[out.key]) >= 2
     \/ \E x \in DOMAIN sessions : x # out.key /\ sessions[x] # <<>>

\* C9: on the slow path an unknown key leads to 401 and a blocked or expired
\* license to 403, and the step that answers removes the key from the session
\* store.
C9_RejectDropsSessions ==
  [][ \A p \in Procs :
        /\ (pc[p] = "validate" /\ pc'[p] # "validate" /\ ~(Answers(p) /\ out'.status = 500)) =>
             LET k == req[p].key
             IN  /\ k \notin DOMAIN db => pc'[p] = "drop401"
                 /\ (k \in DOMAIN db /\ (db[k].is_blocked \/ db[k].expires_at < clock)) =>
                      pc'[p] = "drop403"
        /\ pc[p] \in {"drop401", "drop403"} /\ pc'[p] # pc[p] =>
             /\ Answers(p)
             /\ out'.status = (IF pc[p] = "drop401" THEN 401 ELSE 403)
             /\ req[p].key \notin DOMAIN sessions'
    ]_vars

\* a heartbeat with a new session id for an expired license was answered 403
C9_Witness ==
  /\ out.kind = "heartbeat" /\ out.status = 403 /\ out.path = "reject"
  /\ ~db[out.key].is_blocked /\ db[out.key].expires_at < clock
  /\ NoSessions(sessions, out.key)

C11_NoLostUpdate ==
  \A c1, c2 \in Callers :
    ( /\ c1 # c2
      /\ ext[c1].pc = "done" /\ ext[c1].result = "Ok"
      /\ ext[c2].pc = "done" /\ ext[c2].result = "Ok"
      /\ ext[c1].key = ext[c2].key ) =>
      LET k == ext[c1].key
          orig == PersistedRow.expires_at
          after(a) == [expires_at |-> Max(ext[a].now, orig) + ext[a].days * DaySecs]
          seq(a, b) == Max(ext[b].now, after(a).expires_at) + ext[b].days * DaySecs
      IN  /\ db[k].expires_at \in {seq(c1, c2), seq(c2, c1)}
          /\ ext[c1].now = ext[c2].now =>
                db[k].expires_at =
                  Max(ext[c1].now, orig) + (ext[c1].days + ext[c2].days) * DaySecs

\* two extends of one day each, the second begun while the first was in
\* progress, both succeeded on an expired license: two days from now
C11_Witness ==
  /\ \A c \in Callers :
       /\ ext[c].pc = "done" /\ ext[c].result = "Ok"
       /\ ext[c].key = "k1" /\ ext[c].days = 1
  /\ \E c \in Callers : ext[c].overlapped
  /\ clock > PersistedRow.expires_at
  /\ db["k1"].expires_at = clock + 2 * DaySecs

\* C12: after a successful extend the license is not blocked, whatever it was
\* before, and the row's other columns are as they were; extended by a
\* positive number of days it validates successfully.
C12_ExtendClearsBlocked ==
  [][ (out'.kind = "buy" /\ out'.result = "Ok") =>
        LET k == out'.key
        IN  /\ ~db'[k].is_blocked
            /\ out'.was_blocked = db[k].is_blocked
            /\ db'[k].max_sessions = db[k].max_sessions
            /\ db'[k].hwid_hash = db[k].hwid_hash
            /\ db'[k].tg_user_id = db[k].tg_user_id
            /\ out'.days > 0 => validate(db', k, clock') = "Ok"
    ]_vars

\* a blocked license was extended by 30 days and validates again
C12_Witness ==
  /\ out.kind = "buy" /\ out.result = "Ok" /\ out.days = 30
  /\ out.was_blocked
  /\ ~db[out.key].is_blocked
  /\ validate(db, out.key, clock) = "Ok"

\* C13: a heartbeat answered 409 leaves the session store exactly as it was
\* (no session inserted, removed or refreshed, no key entry created) and
\* leaves the license table as it was.
C13_LimitFrame ==
  [][ \A p \in Procs :
        (Answers(p) /\ out'.status = 409) =>
          /\ sessions' = sessions
          /\ db' = db
    ]_vars

\* a second session id was answered 409 while the stored session, last
\* refreshed earlier, kept its last_seen
C13_Witness ==
  /\ out.kind = "heartbeat" /\ out.status = 409
  /\ out.key \in DOMAIN sessions
  /\ ~HasSession(sessions, out.key, out.session_id)
  /\ \E s \in Range(sessions[out.key]) : s.last_seen < clock

\* C14: redeeming a token returns the version stored for it iff the token was
\* issued and now - issued_at < lifetime; in every other case the answer is
\* the one an unissued token gets (None, 401).  A token still inside its
\* lifetime is still in the table.
C14_RedeemWindow ==
  /\ \A t \in DOMAIN issued :
       clock - issued[t].record.created_at < download_token_lifetime =>
         t \in DOMAIN download_tokens /\ download_tokens[t] = issued[t].record
  /\ out.kind = "redeem" =>
       LET t == out.key
           good == t \in DOMAIN issued
                     /\ out.value - issued[t].record.created_at < download_token_lifetime
       IN  /\ good => out.result = issued[t].record.version /\ out.status = 200
           /\ ~good => out.result = None /\ out.status = 401

\* a token that had been redeemed successfully was redeemed again 601 seconds
\* after it was issued, its record still in the table, and was refused like a
\* token never issued
C14_Witness ==
  /\ out.kind = "redeem" /\ out.key \in DOMAIN download_tokens
  /\ issued[out.key].redeemed >= 1
  /\ out.value = issued[out.key].record.created_at + (download_token_lifetime + 1)
  /\ out.result = None /\ out.status = 401

\* C15: redeeming a token never changes the token table; a token in the table
\* and inside its lifetime is redeemed successfully every time, and every
\* successful redemption returns the version the token was issued for.
C15_RedeemFrame ==
  [][ out'.kind = "redeem" =>
        LET t == out'.key
        IN  /\ download_tokens' = download_tokens
            /\ ( /\ t \in DOMAIN download_tokens
                 /\ clock - download_tokens[t].created_at < download_token_lifetime ) =>
                  out'.result = download_tokens[t].version
            /\ out'.result # None => out'.result = issued[t].record.version
    ]_vars

\* the same token redeemed successfully a second time, later than it was issued
C15_Witness ==
  /\ out.kind = "redeem" /\ out.result # None
  /\ out.key \in DOMAIN download_tokens
  /\ issued[out.key].redeemed >= 2
  /\ out.value > download_tokens[out.key].created_at

\* C16: a scheduled run that read the same licenses as the run before it
\* produces no snapshot, and a run whose fingerprint equals the stored one
\* ends at once: no snapshot file, nothing sent to an administrator.
C16_BackupIdempotent ==
  [][ /\ bk'.pc \in {"vacuum", "send"} => bk'.new_hash # bk'.prev
      /\ (bk.pc = "decide" /\ bk'.pc # "decide" /\ bk.new_hash = backup_hash) =>
           /\ bk'.pc = "idle"
           /\ bk'.made = bk.made
           /\ files' = files
           /\ out'.kind \notin {"snapshot", "send"}
    ]_vars

\* three runs: the first stored the fingerprint, the second found the licenses
\* changed and produced a snapshot, the third found them unchanged and skipped
C16_Witness ==
  /\ bk.pc = "idle" /\ bk.made = 1
  /\ bk.new_hash = bk.prev /\ bk.new_hash # Sentinel
  /\ backup_hash = bk.new_hash
  /\ backup_hash = hash_licenses(db)
  /\ files = {}

\* C17 (as claimed): on a run that finds the licenses changed, the stored
\* fingerprint is updated only after the snapshot was handed to every
\* administrator.
C17_FingerprintAfterHandOver ==
  [][ (backup_hash' # backup_hash /\ backup_hash # Sentinel) =>
        (bk.pc = "send" /\ bk.todo = {})
    ]_vars

\* C18 (as claimed): every /backup produces a snapshot and sends that snapshot
\* to the requester, and leaves the stored fingerprint alone.
C18_ForceBackupAlwaysSnapshots ==
  [][ \A c \in Admins :
        (out'.kind = "send" /\ out'.proc = c /\ out'.result # "backup") =>
          /\ out'.result = "manual_backup"
          /\ fb[c].pc = "send"
          /\ backup_hash' = backup_hash
    ]_vars

\* C19 (as claimed): at most one snapshot statement is running at any time.
C19_OneSnapshotAtATime == Cardinality(Snapshotting) <= 1

\* C20 (as claimed): a request waiting on the durable store holds no lock of
\* the session map, and a request is kept waiting for a lock only by a
\* request for the same key.
C20_NoLockAcrossStore ==
  /\ \A p \in Procs : WaitsOnStore(p) => guard[p] = 0
  /\ \A p, q \in Procs : BlockedBy(q, p) => req[p].key = req[q].key

\* C21 (as claimed): no reachable state is a deadlock: while a heartbeat
\* request is in flight, some request in flight can take its next step.
C21_NoDeadlock == (\E p \in Procs : pc[p] # "idle") => ENABLED HbStep

\* C22: right after the evictor ran with time `now`, every stored session has
\* now - last_seen < session_lifetime, every session that had
\* now - last_seen < session_lifetime is still stored under its key, in the
\* order it had, nothing else is stored, and no key has an empty list.
C22_EvictExact ==
  [][ out'.kind = "gc" =>
        LET now == out'.value
            live(seq) == SelectSeq(seq, LAMBDA x : now - x.last_seen < session_lifetime)
        IN  /\ \A k \in DOMAIN sessions' :
                 /\ sessions'[k] # <<>>
                 /\ \A i \in 1..Len(sessions'[k]) :
                      ~(now - sessions'[k][i].last_seen >= session_lifetime)
            /\ \A k \in DOMAIN sessions :
                 IF live(sessions[k]) = <<>>
                   THEN k \notin DOMAIN sessions'
                   ELSE k \in DOMAIN sessions' /\ sessions'[k] = live(sessions[k])
            /\ DOMAIN sessions' \subseteq DOMAIN sessions
    ]_vars

\* at time 120 the evictor removed the sessions last seen at 0 and kept those
\* last seen at 1: one key lost its entry, the other kept one of its two sessions
C22_Witness ==
  /\ out.kind = "gc" /\ out.value = session_lifetime
  /\ out.current >= 2 /\ out.max = 1
  /\ \E k \in Keys : k \notin DOMAIN sessions
  /\ \E k \in DOMAIN sessions :
       Len(sessions[k]) = 1 /\ sessions[k][1].last_seen = 1 /\ sessions[k][1].session_id = "b"

\* C23: while the evictor keeps running, every session that gets no further
\* heartbeat is eventually removed, and its key's entry with the last of
\* them: once the heartbeats have stopped, the store ends up, and stays,
\* without any session and without any key.
C23_IdleSessionRemoved == <>[](\A k \in Keys : k \notin DOMAIN sessions)

\* the only stored session, created by the only heartbeat there was, was
\* removed with its key by the evictor's run at 120
C23_Witness ==
  /\ out.kind = "gc" /\ out.value = session_lifetime
  /\ out.current = 1 /\ out.max = 0
  /\ sessions = EmptyMap
  /\ ops = 1

\* C24: the magic token of a successful heartbeat depends on the session id
\* (and the secret) only, whatever the key, the machine, the time and the
\* path: it is the 64-bit FNV-1a hash of the session id followed by the secret,
\* read as a signed integer: for "a" followed by "sk" 0xe759a2190572cf92, that
\* is -1776210349671657582, for "b" followed by "sk" 0x00761519136cbf8b, that is
\* 33237244696117131.  FNV-1a of "a" alone is 0xaf63dc4c8601ec8c.  An answer
\* other than 200 carries no token.
C24_MagicToken ==
  /\ Fnv(fnv_offset_basis, Utf8["a"]) = <<140, 236, 1, 134, 76, 220, 99, 175>>
  /\ out.kind = "heartbeat" =>
       IF out.status = 200
         THEN out.magic =
                IF out.session_id = "a"
                  THEN [negative |-> TRUE,
                        magnitude |-> <<110, 48, 141, 250, 230, 93, 166, 24>>]
                  ELSE [negative |-> FALSE,
                        magnitude |-> <<139, 191, 108, 19, 25, 21, 118, 0>>]
         ELSE out.magic = NoMagic

\* session "a" was refreshed on the fast path from another machine and at
\* another time than it was created, and got the negative token
C24_Witness ==
  /\ out.kind = "heartbeat" /\ out.status = 200 /\ out.path = "fast"
  /\ out.session_id = "a" /\ out.magic.negative
  /\ \E x \in Range(SessionsOf(sessions, out.key)) :
       x.session_id = "a" /\ x.hwid_hash # out.machine_id /\ x.last_seen > 0

\* what the admission step of a request without stats answers and leaves in
\* the session store
PlainOutcome(store, r) ==
  LET entry == SelectSeq(SessionsOf(store, r.key),
                         LAMBDA x : r.now - x.last_seen < session_lifetime)
  IN  IF Len(entry) >= r.license.max_sessions
        THEN [status |-> 409, magic |-> NoMagic, store |-> PutKey(store, r.key, entry)]
        ELSE [status |-> 200, magic |-> Magic[r.session_id],
              store |-> PutKey(store, r.key,
                          Append(entry, NewSession(r.session_id, r.machine_id, r.now)))]

C26_StatsNeedSession ==
  [][ /\ st' # st => sessions' = sessions
      /\ out'.kind = "stats" => out'.status \in {200, 400, 401}
      /\ (out'.kind = "stats" /\ out'.status = 200) => st.pc = "update"
      /\ (st.pc = "validate" /\ st'.pc # "validate") =>
           LET found == \E x \in Range(SessionsOf(sessions, st.key)) :
                           x.session_id = st.session_id
           IN  /\ validate(db, st.key, clock) # "Ok" => out'.status = 401
               /\ ~found => out'.status = 401
               /\ (st'.pc = "update" \/ out'.status = 400) =>
                    validate(db, st.key, clock) = "Ok" /\ found
               /\ out'.status = 400 => st.data # "valid"
               /\ st'.pc = "update" => st.data = "valid"
    ]_vars

\* a valid payload for a valid license was answered 401: a session is stored
\* under the key, but with another id
C26_Witness ==
  /\ out.kind = "stats" /\ out.status = 401 /\ out.result = "Invalid session"
  /\ validate(db, out.key, clock) = "Ok"
  /\ SessionsOf(sessions, out.key) # <<>>
  /\ ~HasSession(sessions, out.key, out.session_id)

----------------------------------------------------------------------------
(* C27: the download endpoint answers 401 for an unknown or expired token and  *)
(* 404 for a valid token whose build is inactive or has no file; otherwise it  *)
(* streams the artifact and the build's download counter grows by one; a       *)
(* request that is rejected leaves every counter as it was.  Two requests for  *)
(* the same build that both read the counter before either writes it both send *)
(* the artifact, and the counter grows by one for the two: the second write    *)
(* stores the value that is already there.                                     *)
C27_DownloadCounts ==
  [][/\ (out'.kind = "download" /\ out'.status = 200) =>
          builds'[out'.result].downloads = builds[out'.result].downloads + 1
     /\ (out'.kind = "download" /\ out'.status # 200) =>
          builds' = builds]_vars

----------------------------------------------------------------------------
(* C28: claim_promo is all-or-nothing: whenever no claim_promo call is in      *)
(* progress, whatever way the calls before ended, the claim record for         *)
(* (owner, promo_name) exists if and only if a trial license of that owner     *)
(* exists.  The license is inserted first and the claim record second, each    *)
(* on its own: a failure of the second insert leaves the license without its   *)
(* claim record.                                                               *)
C28_ClaimAllOrNothing ==
  (\A c \in Callers : cp[c].pc = "idle") =>
    \A o \in Owners : <<o, promo_name>> \in promos <=> TrialsOf(db, o) # {}

(* C29: for every (owner, promo_name) at most one promotional license is ever  *)
(* created, also under concurrent claim_promo calls: a claim after the first   *)
(* creates no license.  Two calls that both look the claim record up before    *)
(* either records it both create a license; the second is then refused by the  *)
(* primary key of the claim records, with a store error, and its license stays.*)
C29_OnePromoLicense ==
  \A o \in Owners : Cardinality(TrialsOf(db, o)) <= 1

----------------------------------------------------------------------------
(* C31: no two sessions stored under one license key have the same            *)
(* session_id, also when two heartbeats with the same key and session_id are   *)
(* in flight before either has created the session.  Both miss the fast path,  *)
(* both are validated, and each pushes a session without looking for its       *)
(* session_id in the list again.                                               *)
C31_UniqueSessionIds ==
  \A k \in DOMAIN sessions :
    \A i, j \in 1..Len(sessions[k]) :
      sessions[k][i].session_id = sessions[k][j].session_id => i = j

(* C32: only live sessions count toward the session limit.  The admission      *)
(* step of the slow path first drops the key's sessions that the request's     *)
(* clock reading finds idle for the timeout or longer, so the request for a    *)
(* new session id is admitted whenever fewer than max_sessions sessions of the *)
(* key were seen within the timeout, and refused with 409 only otherwise,      *)
(* without any run of the evictor.                                             *)
C32_LiveSessionsCount ==
  [][ \A p \in Procs :
        (pc[p] = "admit" /\ Answers(p)) =>
          LET k == req[p].key
              now == req[p].now
              seen == LiveCount(SessionsOf(sessions, k), now)
          IN  /\ seen < req[p].license.max_sessions =>
                   /\ out'.status = 200
                   /\ HasSession(sessions', k, req[p].session_id)
              /\ out'.status = 409 => seen >= req[p].license.max_sessions
              /\ \A i \in 1..Len(SessionsOf(sessions', k)) :
                   now - sessions'[k][i].last_seen < session_lifetime
    ]_vars

\* k1 allows one session and had one stored, last seen a session lifetime ago;
\* the first request, for another session id, was admitted and the idle
\* session is gone
C32_Witness ==
  /\ ops = 1
  /\ out.kind = "heartbeat" /\ out.status = 200 /\ out.path = "slow"
  /\ out.key = "k1" /\ out.session_id = "b"
  /\ db["k1"].max_sessions = 1
  /\ sessions["k1"] = <<NewSession("b", "m1", session_lifetime)>>

(* C33, as claimed: every heartbeat that is answered 200 and carried a         *)
(* decodable stats blob has handed the stats to update_from_telemetry, on the  *)
(* fast path as on the slow path.  A request that finds its session stored is  *)
(* answered before its stats field is looked at.                               *)
C33_TelemetryOnEveryPath ==
  [][ \A p \in Procs :
        (Answers(p) /\ out'.status = 200 /\ blob'[p] = "valid") => pc[p] = "telemetry"
    ]_vars

(* C33, amended: a heartbeat answered 200 on the slow path that carried a      *)
(* decodable blob has called update_from_telemetry, with the tg_user_id of the *)
(* license and the number of sessions stored under the key once its own was    *)
(* pushed; a heartbeat answered on the fast path has made no such call, and no *)
(* call is made for a request without a decodable blob.                        *)
C33_TelemetryOnSlowPath ==
  [][ \A p \in Procs :
        /\ (Answers(p) /\ out'.status = 200 /\ blob'[p] = "valid") =>
             IF out'.path = "slow" THEN pc[p] = "telemetry" ELSE pc[p] = "idle"
        /\ (out'.kind = "telemetry" /\ out'.proc = p) =>
             /\ pc[p] = "admit" /\ pc'[p] = "telemetry"
             /\ blob[p] = "valid"
             /\ out'.value = db[req[p].key].tg_user_id
             /\ out'.current = Len(sessions'[req[p].key])
             /\ HasSession(sessions', req[p].key, req[p].session_id)
        /\ (pc'[p] = "telemetry" /\ pc[p] # "telemetry") =>
             out'.kind = "telemetry" /\ out'.proc = p
    ]_vars

\* a request with a decodable blob was admitted, update_from_telemetry
\* returned Ok, and the request was answered 200
C33_Witness ==
  /\ out.kind = "heartbeat" /\ out.status = 200 /\ out.path = "slow"
  /\ out.result = "Ok"
  /\ blob[out.proc] = "valid"
  /\ HasSession(sessions, out.key, out.session_id)

\* the rows of two reads agree on key, owner, blocked flag, expiry and session cap
SameForBackup(t, u) ==
  /\ DOMAIN t = DOMAIN u
  /\ \A k \in DOMAIN t :
       /\ t[k].tg_user_id = u[k].tg_user_id
       /\ t[k].is_blocked = u[k].is_blocked
       /\ t[k].expires_at = u[k].expires_at
       /\ t[k].max_sessions = u[k].max_sessions

(* C34: whether a scheduled run produces a snapshot depends only on the key,   *)
(* owner, blocked flag, expiry and session cap of the license rows: a run      *)
(* after the first goes on to the snapshot exactly when the rows it read       *)
(* differ in one of these, or in the set of keys, from the rows the run before *)
(* it read.  What else happened in between (sessions, the hardware binding of  *)
(* a license, download tokens) makes no difference; the first run of a process *)
(* produces none.                                                              *)
C34_BackupDecision ==
  [][ (bk.pc = "decide" /\ bk'.pc # "decide") =>
        /\ bk'.pc \in {"idle", "vacuum"}
        /\ bk'.pc = "vacuum" <=>
             (backup_hash # Sentinel /\ ~SameForBackup(bk.licenses, bk.before))
    ]_vars

\* the second run produced no snapshot: since the first run a heartbeat had
\* bound k1 to its machine and created a session, and a download token was issued
C34_Witness ==
  /\ bk.pc = "idle" /\ bk.made = 0
  /\ bk.prev # Sentinel /\ backup_hash = hash_licenses(db)
  /\ bk.before["k1"].hwid_hash = None /\ bk.licenses["k1"].hwid_hash # None
  /\ sessions # EmptyMap
  /\ download_tokens # EmptyMap

\* the table had no sweep ever run: every token handed out, as it was stored
NeverSwept == [t \in DOMAIN issued |-> issued[t].record]

(* C35: the sweep removes exactly the tokens with now - issued_at >= lifetime  *)
(* and leaves the others as they are, so after it no expired token is in the   *)
(* table; and at every time, for every token, redeeming against the table      *)
(* gives what redeeming against the never-swept table gives.                   *)
C35_SweepRefinesRedeem ==
  /\ [](\A t \in Tokens :
          validate_download_token(download_tokens, t, clock)
            = validate_download_token(NeverSwept, t, clock))
  /\ [][ DOMAIN download_tokens' # DOMAIN download_tokens /\ issued' = issued =>
           /\ DOMAIN download_tokens \ DOMAIN download_tokens'
                = {t \in DOMAIN download_tokens :
                     clock - download_tokens[t].created_at >= download_token_lifetime}
           /\ \A t \in DOMAIN download_tokens' :
                /\ download_tokens'[t] = download_tokens[t]
                /\ clock' - download_tokens'[t].created_at < download_token_lifetime
       ]_vars

\* a sweep has removed an expired token and kept a live one, and redeeming
\* the removed token was then refused
C35_Witness ==
  /\ \E t \in DOMAIN issued : t \notin DOMAIN download_tokens
  /\ download_tokens # EmptyMap
  /\ out.kind = "redeem" /\ out.key \in DOMAIN issued
  /\ out.key \notin DOMAIN download_tokens
  /\ out.status = 401

(* C36 (as claimed): no license change is lost.  When the licenses differ from *)
(* what the first run read, then from some time on the latest snapshot holds   *)
(* the licenses as they are, provided the interval keeps firing and a snapshot *)
(* statement attempted again and again succeeds at some time.                  *)
C36_NoChangeLost ==
  <>[]( (bk.first # EmptyMap /\ ~SameForBackup(db, bk.first)) =>
          SameForBackup(db, bk.snap) )

\* a step of /backup in some administrator's chat
Forced == \E c \in Admins : FbStart(c) \/ FbVacuum(c) \/ FbSend(c)

(* C37: no step of a forced backup changes the stored fingerprint, the         *)
(* licenses or the state of the scheduled task; so with forced backups running *)
(* at any time, a scheduled run still goes on to the snapshot exactly when a   *)
(* fingerprint is stored and the rows it read differ from the rows the         *)
(* scheduled run before it read.                                               *)
C37_ForcedBackupFrame ==
  [][ /\ Forced => backup_hash' = backup_hash /\ bk' = bk /\ db' = db
      /\ (bk.pc = "decide" /\ bk'.pc # "decide") =>
           (bk'.pc = "vacuum" <=>
              (bk.prev # Sentinel /\ ~SameForBackup(bk.licenses, bk.before)))
    ]_vars

\* a license was extended after a scheduled run; a forced backup has taken its
\* snapshot, and the scheduled run that read the licenses next still decided
\* for a snapshot
C37_Witness ==
  /\ \E c \in Admins : fb[c].pc = "send"
  /\ bk.pc = "vacuum"
  /\ bk.licenses = db
  /\ ~SameForBackup(bk.licenses, bk.before)

(* C38: an instance that returned Ok, returned an error or panicked is started *)
(* again, and not before the restart delay has passed; the supervisor gives a  *)
(* plugin up only when the instance's task was cancelled, and then for good;   *)
(* and no plugin ever has two instances running.                               *)
C38_Supervisor ==
  /\ [](\A p \in Plugins : plug[p].running <= 1)
  /\ [][ \A p \in Plugins :
           /\ (plug[p].sup # "stopped" /\ plug'[p].sup = "stopped") =>
                (plug[p].sup = "await" /\ plug[p].joined = "Cancelled")
           /\ plug[p].sup = "stopped" => plug'[p] = plug[p]
           /\ (plug[p].sup = "await" /\ plug'[p].sup # "await"
                 /\ plug[p].joined \in {"Ok", "Err", "Panic"}) =>
                (plug'[p].sup = "sleep" /\ plug'[p].left = restart_delay)
           /\ (plug[p].last # None /\ plug'[p].running > plug[p].running) =>
                plug[p].left = 0
     ]_vars
  /\ \A p \in Plugins :
       (plug[p].joined \in {"Ok", "Err", "Panic"}) ~> (plug[p].running = 1)

\* one plugin runs again after its instance panicked, while the other was
\* cancelled and is no longer supervised
C38_Witness ==
  \E p, q \in Plugins :
    /\ plug[p].running = 1 /\ plug[p].last = "Panic"
    /\ plug[q].sup = "stopped" /\ plug[q].last = "Cancelled" /\ plug[q].running = 0

\* chat sends /gen, /buy, /ban, /unban or /backup
AdminCommand(chat) ==
  \/ \E o \in Owners, d \in GenDays, m \in CreateMaxSessions : CmdGen(chat, o, d, m)
  \/ \E k \in Keys, d \in BuyDays : CmdBuy(chat, k, d)
  \/ \E k \in Keys : CmdBan(chat, k)
  \/ \E k \in Keys : CmdUnban(chat, k)
  \/ CmdBackup(chat)

\* a step of the /freeweek command chat sent
FreeWeekStep(chat) ==
  \/ CmdFreeWeek(chat)
  \/ \E c \in Callers :
       /\ cp[c].tg_user_id = chat
       /\ CpFind(c) \/ CpCreate(c) \/ CpCreateErr(c) \/ CpInsert(c) \/ CpInsertErr(c)

\* licenses, sessions and backups are as they were
NothingDone ==
  /\ db' = db /\ sessions' = sessions /\ banned' = banned
  /\ fb' = fb /\ bk' = bk /\ files' = files /\ backup_hash' = backup_hash
  /\ out'.kind \notin {"snapshot", "send"}

(* C39 (as claimed): no chat command of a user outside the configured set      *)
(* changes a license or a session or produces a backup.                        *)
C39_NonAdminChangesNothing ==
  [][ \A c \in Chats \ Admins : (AdminCommand(c) \/ FreeWeekStep(c)) => NothingDone ]_vars

(* C39 (amended): /gen, /buy, /ban, /unban and /backup from a chat outside the *)
(* configured set change no license and no session and produce no backup; the  *)
(* only change of the licenses that is not the work of an administrator's      *)
(* command is the one trial license /freeweek creates for its sender.          *)
C39_AdminCommandsGuarded ==
  [][ /\ \A c \in Chats \ Admins : AdminCommand(c) => NothingDone
      /\ db' # db =>
           \/ \E c \in Admins : AdminCommand(c)
           \/ \E c \in Callers :
                /\ CpCreate(c)
                /\ \E k \in Keys \ DOMAIN db :
                     /\ DOMAIN db' = DOMAIN db \cup {k}
                     /\ db'[k].license_type = "trial"
                     /\ db'[k].tg_user_id = cp[c].tg_user_id
                /\ \A k \in DOMAIN db : db'[k] = db[k]
    ]_vars

\* the /ban of a user outside the configured set was ignored: the key exists
\* and is not blocked
C39_Witness ==
  /\ out.kind = "ignored" /\ out.proc \notin Admins /\ out.result = "ban"
  /\ out.key \in DOMAIN db /\ ~db[out.key].is_blocked
  /\ adm = IdleAdm

(* C40 (as claimed): chunk_message returns at least one chunk for every text   *)
(* and every max_len, and reply_html_chunked never finds that it sent nothing. *)
C40_ChunksNeverEmpty ==
  /\ ck.pc \in {"chunked", "sending", "returned"} => Len(ck.chunks) >= 1
  /\ ck.result # "Panic"

====
